---------------------------- MODULE Spec2Model ----------------------------
(***************************************************************************)
(* Shift approval workflow of the shift bot: the shifts table, the         *)
(* revision ledger and the audit log, and the operations of                *)
(* ShiftApprovalService (src/services/shift_approval.py) running against   *)
(* DatabaseSession (src/db/database.py) and log_action                     *)
(* (src/utils/audit_log.py).                                               *)
(*                                                                         *)
(* Every operation is one action: it runs alone, from loading the rows to  *)
(* the return of the handler.  The persistence layer may fail: the input   *)
(* fault of each action says where (see Faults).                           *)
(*                                                                         *)
(* Further specifications of the module:                                   *)
(*   SpecOverlap    adjust_shift and approve_shifts run by concurrent      *)
(*                  handlers: each call queries, and commits later         *)
(*   SpecFlow       the generation flow of ManagerHandler.handle_create_   *)
(*                  shift (src/handlers/manager_handler.py) over the       *)
(*                  requests workers submitted, run by concurrent handlers *)
(*   SpecOptimizer  ShiftOptimizer.create_shifts as a function of its      *)
(*                  arguments (src/services/shift_optimizer.py)            *)
(*   SpecHours      get_duration_hours of Shift and ShiftRequest           *)
(*   SpecLabor      LaborLawChecker.check_all_violations                   *)
(*                  (src/utils/labor_law.py)                               *)
(***************************************************************************)
EXTENDS Integers, Sequences, FiniteSets, Bags, TLC

VARIABLES
    shifts,      \* table shifts: row i is the Shift with id i (autoincrement)
    revisions,   \* table shift_revisions, in insertion order
    audit_logs,  \* table audit_logs without id and created_at: a bag of rows
    result,      \* the operation that ran last and the value it returned
    faults,      \* the failures of the persistence layer so far, in order
    shift_requests,  \* table shift_requests: row i is the ShiftRequest with id i
    runs,        \* the runs of handle_create_shift: position and local variables
    sent,        \* the messages line_service sent to the manager, per run
    call,        \* a function under study: its name, arguments and return value
    sessions     \* the calls that run in a session of their own: the rows
                 \* each one loaded and how far it is

vars ==
    <<shifts, revisions, audit_logs, result, faults, shift_requests, runs,
      sent, call, sessions>>

\* The state outside the approval workflow.
flow_vars == <<shift_requests, runs, sent>>

---------------------------------------------------------------------------
(* Bounds of the model *)

MaxShifts == 2
MaxVersion == 3
MaxRevisions == 3
MaxAudit == 5
MaxFaults == 1

---------------------------------------------------------------------------
(* Values *)

\* A nullable integer column that holds NULL (ids start at 1).
NoneId == 0
\* A nullable text column that holds NULL.
NoneText == "<None>"

Groups == {"g1", "g2"}
Users == {1, 2}
ActorIds == {1}
Instants == {1}
Reasons == {"fix"}

\* class ShiftStatus
ShiftStatus ==
    {"draft", "adjusting", "adjusted", "pending", "approved", "published",
     "rejected"}

\* Where the persistence layer fails during an operation:
\*   none    nowhere
\*   mutate  an exception inside the with block before session.commit()
\*   commit  session.commit() raises
\*   log     the commit inside log_action raises (log_action swallows it)
Faults == {"none", "mutate", "commit", "log"}

---------------------------------------------------------------------------
(* Shift: the guard predicates *)

can_publish(s) == s.status = "approved"

\* Faulty variant: an approved shift can be edited too.
can_edit_AlsoApproved(s) ==
    s.status \in {"draft", "adjusting", "adjusted", "approved"}

can_edit(s) == s.status \in {"draft", "adjusting", "adjusted"}

can_approve(s) == s.status \in {"adjusted", "pending"}

can_reject(s) == s.status \in {"adjusting", "adjusted", "pending", "approved"}

is_published(s) == s.status = "published"

---------------------------------------------------------------------------
(* DatabaseSession and log_action *)

\* The tables one workflow transaction writes.
Db(sh, rv) == [shifts |-> sh, revisions |-> rv]

\* session.commit() inside the with block: raises under fault "commit",
\* otherwise the pending changes become the stored state.
Raises(fault) == fault \in {"mutate", "commit"}

\* Faulty variant: __exit__ commits whether or not the block raised.
DatabaseSessionExit_CommitAlways(stored, pending, exc) == pending

\* DatabaseSession.__exit__: rollback when the block raised, commit
\* otherwise.  stored: what the database holds, pending: the session's rows.
DatabaseSessionExit(stored, pending, exc) ==
    IF exc THEN stored ELSE pending

\* The with block of an operation: the rows as mutated in memory (pending),
\* the explicit session.commit() unless the block raised before it, then
\* __exit__.
Transaction(stored, pending, fault) ==
    LET committed == IF Raises(fault) THEN stored ELSE pending
    IN  DatabaseSessionExit(committed, IF Raises(fault) THEN pending ELSE committed,
                            Raises(fault))

AuditLog(action, actor_id, resource_id, data_accessed, res) ==
    [action |-> action, actor_id |-> actor_id, resource_id |-> resource_id,
     data_accessed |-> data_accessed, result |-> res]

\* log_action: one row appended in a transaction of its own; a failure of
\* that transaction is swallowed and the row is lost.
log_action(logs, action, actor_id, resource_id, data_accessed, res, fails) ==
    IF fails
    THEN logs
    ELSE logs (+) SetToBag({AuditLog(action, actor_id, resource_id,
                                     data_accessed, res)})

\* The two ends of every operation: after a committed block the SUCCESS
\* record is written (lost under fault "log"); after a raised block the
\* except branch writes the FAILURE record, which carries neither resource
\* nor data.
LogOutcome(logs, action, actor_id, resource_id, data_accessed, fault) ==
    IF Raises(fault)
    THEN log_action(logs, action, actor_id, NoneId, NoneText, "FAILURE", FALSE)
    ELSE log_action(logs, action, actor_id, resource_id, data_accessed,
                    "SUCCESS", fault = "log")

\* What the caller of the last operation holds: the operation, the group id
\* or shift id it was called with, and the boolean it returned.
Returned(op, target, ok) == [op |-> op, target |-> target, ok |-> ok]

\* Behaviours are followed up to the MaxFaults-th failure of the persistence
\* layer.
Inject(fault) ==
    /\ Len(faults) < MaxFaults
    /\ faults' = IF fault = "none" THEN faults ELSE Append(faults, fault)

---------------------------------------------------------------------------
(* Rows *)

\* A Shift as ShiftOptimizer.create_shifts builds it.
NewShift(g, u, d, st, en) ==
    [group_id |-> g, user_id |-> u, date |-> d, start_time |-> st,
     end_time |-> en, status |-> "draft", version |-> 1,
     created_by |-> NoneId, created_at |-> NoneId,
     adjusted_by |-> NoneId, adjusted_at |-> NoneId,
     approved_by |-> NoneId, approved_at |-> NoneId,
     published_by |-> NoneId, published_at |-> NoneId,
     rejected_by |-> NoneId, rejected_at |-> NoneId,
     rejection_reason |-> NoneText]

Ids(sh) == 1..Len(sh)

\* rows with the mutation f applied to the rows in ids
Update(sh, ids, f(_)) ==
    [i \in Ids(sh) |-> IF i \in ids THEN f(sh[i]) ELSE sh[i]]

\* The rows a block has mutated when it ends: all of the loaded rows, or,
\* when it raised in the loop, any part of them.
Touched(rows, fault) ==
    IF fault = "mutate" THEN SUBSET rows ELSE {rows}

---------------------------------------------------------------------------
(* ShiftApprovalService *)

\* The dicts adjust_shift is called with.  On the rows as created (9 to 17)
\* and as adjusted they make each tracked key absent, present and equal, and
\* present and different; the second one also carries untracked keys.
NoData == [k \in {} |-> NoneId]

NewDatas ==
    { NoData,
      ("start_time" :> 10) @@ ("end_time" :> 17) @@ ("group_id" :> "g2")
         @@ ("date" :> 2),
      ("user_id" :> 2) @@ ("start_time" :> 10) @@ ("end_time" :> 18) }

\* The tables of the approval workflow after create_tables.
InitTables ==
    /\ shifts = <<>>
    /\ revisions = <<>>
    /\ audit_logs = EmptyBag
    /\ result = Returned("init", NoneText, TRUE)
    /\ faults = <<>>
    /\ sessions = <<>>

\* No run of handle_create_shift and no request yet.
InitFlow ==
    /\ shift_requests = <<>>
    /\ runs = <<>>
    /\ sent = <<>>

\* No function under study.
NoCall == [fn |-> NoneText]

Init ==
    /\ InitTables
    /\ InitFlow
    /\ call = NoCall

\* The batches create_draft_shifts is called with.
Batches ==
    {<<NewShift(g, 1, 1, 9, 17)>> : g \in Groups}
      \cup {<<NewShift("g1", 1, 1, 9, 17), NewShift("g1", 2, 1, 9, 17)>>}

CreateDraftRow(s, admin_id, now) ==
    [s EXCEPT !.status = "draft", !.created_by = admin_id, !.created_at = now]

\* Faulty variant: a shift is not stored when its worker already has a stored
\* shift on its date.
create_draft_shifts_SkipBooked(batch, admin_id, now, fault) ==
    /\ BagCardinality(audit_logs) < MaxAudit
    /\ Inject(fault)
    /\ LET added == [i \in DOMAIN batch |->
                       CreateDraftRow(batch[i], admin_id, now)]
           free == SelectSeq(added,
                     LAMBDA s : \A i \in DOMAIN shifts :
                        ~(shifts[i].user_id = s.user_id
                            /\ shifts[i].date = s.date))
           db == Transaction(Db(shifts, revisions),
                             Db(shifts \o free, revisions), fault)
       IN  /\ shifts' = db.shifts
           /\ revisions' = db.revisions
    /\ audit_logs' = LogOutcome(audit_logs, "CREATE_DRAFT_SHIFTS", admin_id, NoneId,
                                ToString(Len(batch)) \o " shifts created", fault)
    /\ result' = Returned("create_draft_shifts", batch[1].group_id, ~Raises(fault))

create_draft_shifts(batch, admin_id, now, fault) ==
    /\ BagCardinality(audit_logs) < MaxAudit
    /\ Inject(fault)
    /\ \E n \in (IF fault = "mutate" THEN 0..Len(batch) ELSE {Len(batch)}) :
         LET added == [i \in 1..n |-> CreateDraftRow(batch[i], admin_id, now)]
             db == Transaction(Db(shifts, revisions),
                               Db(shifts \o added, revisions), fault)
         IN  /\ shifts' = db.shifts
             /\ revisions' = db.revisions
    /\ audit_logs' = LogOutcome(audit_logs, "CREATE_DRAFT_SHIFTS", admin_id, NoneId,
                                ToString(Len(batch)) \o " shifts created", fault)
    /\ result' = Returned("create_draft_shifts", batch[1].group_id, ~Raises(fault))

\* Faulty variant: the query does not filter on the status.
StartAdjustmentFilter_AnyStatus(s, group_id) == s.group_id = group_id

StartAdjustmentFilter(s, group_id) ==
    s.group_id = group_id /\ s.status = "draft"

StartAdjustmentRow(s) == [s EXCEPT !.status = "adjusting"]

start_adjustment(group_id, admin_id, fault) ==
    /\ BagCardinality(audit_logs) < MaxAudit
    /\ Inject(fault)
    /\ LET rows == {i \in Ids(shifts) : StartAdjustmentFilter(shifts[i], group_id)}
       IN  \E done \in Touched(rows, fault) :
             LET db == Transaction(Db(shifts, revisions),
                                   Db(Update(shifts, done, StartAdjustmentRow),
                                      revisions), fault)
             IN  /\ shifts' = db.shifts
                 /\ revisions' = db.revisions
    /\ audit_logs' = LogOutcome(audit_logs, "START_ADJUSTMENT", admin_id, NoneId,
                                "group_id=" \o group_id, fault)
    /\ result' = Returned("start_adjustment", group_id, ~Raises(fault))

\* str(value) if value is not None else None
Str(v) == IF v = NoneId THEN NoneText ELSE ToString(v)

\* Faulty variant: the entry holds the new value as the old one and the old
\* value as the new one.
create_revision_Swapped(shift_id, field_name, old_value, new_value, changed_by, reason) ==
    [shift_id |-> shift_id, field_name |-> field_name,
     old_value |-> Str(new_value), new_value |-> Str(old_value),
     changed_by |-> changed_by, change_reason |-> reason]

\* ShiftRevision.create_revision
create_revision(shift_id, field_name, old_value, new_value, changed_by, reason) ==
    [shift_id |-> shift_id, field_name |-> field_name,
     old_value |-> Str(old_value), new_value |-> Str(new_value),
     changed_by |-> changed_by, change_reason |-> reason]

\* The fields adjust_shift looks at, in the order it looks at them.
TrackedFields == <<"user_id", "start_time", "end_time">>

\* Faulty variant: a key that is present counts as a change.
Differs_WhenPresent(shift, new_data, field) == field \in DOMAIN new_data

\* 'field' in new_data and new_data['field'] != shift.field
Differs(shift, new_data, field) ==
    field \in DOMAIN new_data /\ new_data[field] # shift[field]

\* The list revisions of adjust_shift after the fields k..3.
RECURSIVE Diffs(_, _, _, _, _, _)
Diffs(shift_id, shift, new_data, admin_id, reason, k) ==
    IF k > Len(TrackedFields)
    THEN <<>>
    ELSE LET field == TrackedFields[k]
             rest == Diffs(shift_id, shift, new_data, admin_id, reason, k + 1)
         IN  IF Differs(shift, new_data, field)
             THEN <<create_revision(shift_id, field, shift[field],
                                    new_data[field], admin_id, reason)>> \o rest
             ELSE rest

\* Faulty variant: the version is bumped only when a field changed.
AdjustRow_BumpOnChange(shift, new_data, admin_id, now) ==
    LET NewValue(field) ==
            IF Differs(shift, new_data, field) THEN new_data[field] ELSE shift[field]
        changed == \E k \in DOMAIN TrackedFields :
                     Differs(shift, new_data, TrackedFields[k])
    IN  [shift EXCEPT !.user_id = NewValue("user_id"),
                      !.start_time = NewValue("start_time"),
                      !.end_time = NewValue("end_time"),
                      !.adjusted_by = admin_id,
                      !.adjusted_at = now,
                      !.status = "adjusted",
                      !.version = IF changed THEN @ + 1 ELSE @]

\* The row adjust_shift leaves in the session.
AdjustRow(shift, new_data, admin_id, now) ==
    LET NewValue(field) ==
            IF Differs(shift, new_data, field) THEN new_data[field] ELSE shift[field]
    IN  [shift EXCEPT !.user_id = NewValue("user_id"),
                      !.start_time = NewValue("start_time"),
                      !.end_time = NewValue("end_time"),
                      !.adjusted_by = admin_id,
                      !.adjusted_at = now,
                      !.status = "adjusted",
                      !.version = @ + 1]

\* Faulty variant: the call is refused when the new worker already holds
\* another shift of the group on the date.
adjust_shift_Validated(shift_id, new_data, admin_id, reason, now, fault) ==
    /\ BagCardinality(audit_logs) < MaxAudit
    /\ Inject(fault)
    /\ IF \/ shift_id \notin Ids(shifts)
          \/ ~can_edit(shifts[shift_id])
          \/ /\ "user_id" \in DOMAIN new_data
             /\ \E j \in Ids(shifts) \ {shift_id} :
                  /\ shifts[j].group_id = shifts[shift_id].group_id
                  /\ shifts[j].date = shifts[shift_id].date
                  /\ shifts[j].user_id = new_data["user_id"]
       THEN \* return False inside the with block: nothing is logged unless
            \* the block raised
            /\ shifts' = shifts
            /\ revisions' = revisions
            /\ audit_logs' =
                  IF Raises(fault)
                  THEN LogOutcome(audit_logs, "ADJUST_SHIFT", admin_id, NoneId,
                                  NoneText, fault)
                  ELSE audit_logs
            /\ result' = Returned("adjust_shift", ToString(shift_id), FALSE)
       ELSE LET shift == shifts[shift_id]
                revs == Diffs(shift_id, shift, new_data, admin_id, reason, 1)
                pending == Db([shifts EXCEPT ![shift_id] =
                                  AdjustRow(shift, new_data, admin_id, now)],
                              IF fault = "mutate" THEN revisions
                              ELSE revisions \o revs)
                db == Transaction(Db(shifts, revisions), pending, fault)
            IN  /\ shift.version < MaxVersion
                /\ Len(revisions) + Len(revs) <= MaxRevisions
                /\ shifts' = db.shifts
                /\ revisions' = db.revisions
                /\ audit_logs' =
                      LogOutcome(audit_logs, "ADJUST_SHIFT", admin_id, shift_id,
                                 ToString(Len(revs)) \o " fields changed", fault)
                /\ result' = Returned("adjust_shift", ToString(shift_id), ~Raises(fault))

adjust_shift(shift_id, new_data, admin_id, reason, now, fault) ==
    /\ BagCardinality(audit_logs) < MaxAudit
    /\ Inject(fault)
    /\ IF shift_id \notin Ids(shifts) \/ ~can_edit(shifts[shift_id])
       THEN \* return False inside the with block: nothing is logged unless
            \* the block raised
            /\ shifts' = shifts
            /\ revisions' = revisions
            /\ audit_logs' =
                  IF Raises(fault)
                  THEN LogOutcome(audit_logs, "ADJUST_SHIFT", admin_id, NoneId,
                                  NoneText, fault)
                  ELSE audit_logs
            /\ result' = Returned("adjust_shift", ToString(shift_id), FALSE)
       ELSE LET shift == shifts[shift_id]
                revs == Diffs(shift_id, shift, new_data, admin_id, reason, 1)
                pending == Db([shifts EXCEPT ![shift_id] =
                                  AdjustRow(shift, new_data, admin_id, now)],
                              IF fault = "mutate" THEN revisions
                              ELSE revisions \o revs)
                db == Transaction(Db(shifts, revisions), pending, fault)
            IN  /\ shift.version < MaxVersion
                /\ Len(revisions) + Len(revs) <= MaxRevisions
                /\ shifts' = db.shifts
                /\ revisions' = db.revisions
                /\ audit_logs' =
                      LogOutcome(audit_logs, "ADJUST_SHIFT", admin_id, shift_id,
                                 ToString(Len(revs)) \o " fields changed", fault)
                /\ result' = Returned("adjust_shift", ToString(shift_id), ~Raises(fault))

\* Faulty variant: the query does not filter on the group.
ApproveFilter_AnyGroup(s, group_id) == s.status \in {"adjusted", "pending"}

\* Faulty variant: the query matches shifts under adjustment too.
ApproveFilter_AlsoAdjusting(s, group_id) ==
    s.group_id = group_id /\ s.status \in {"adjusting", "adjusted", "pending"}

ApproveFilter(s, group_id) ==
    s.group_id = group_id /\ s.status \in {"adjusted", "pending"}

ApproveRow(s, approver_id, now) ==
    [s EXCEPT !.status = "approved", !.approved_by = approver_id,
              !.approved_at = now]

approve_shifts(group_id, approver_id, now, fault) ==
    /\ BagCardinality(audit_logs) < MaxAudit
    /\ Inject(fault)
    /\ LET rows == {i \in Ids(shifts) : ApproveFilter(shifts[i], group_id)}
           Row(s) == ApproveRow(s, approver_id, now)
       IN  /\ \E done \in Touched(rows, fault) :
                 LET db == Transaction(Db(shifts, revisions),
                                       Db(Update(shifts, done, Row), revisions),
                                       fault)
                 IN  /\ shifts' = db.shifts
                     /\ revisions' = db.revisions
           /\ audit_logs' =
                 LogOutcome(audit_logs, "APPROVE_SHIFTS", approver_id, NoneId,
                            ToString(Cardinality(rows)) \o " shifts approved", fault)
    /\ result' = Returned("approve_shifts", group_id, ~Raises(fault))

\* Faulty variant: the query matches adjusted shifts too.
PublishFilter_AlsoAdjusted(s, group_id) ==
    s.group_id = group_id /\ s.status \in {"adjusted", "approved"}

PublishFilter(s, group_id) ==
    s.group_id = group_id /\ s.status = "approved"

PublishRow(s, publisher_id, now) ==
    [s EXCEPT !.status = "published", !.published_by = publisher_id,
              !.published_at = now]

publish_shifts(group_id, publisher_id, now, fault) ==
    /\ BagCardinality(audit_logs) < MaxAudit
    /\ Inject(fault)
    /\ LET rows == {i \in Ids(shifts) : PublishFilter(shifts[i], group_id)}
           Row(s) == PublishRow(s, publisher_id, now)
       IN  /\ \E done \in Touched(rows, fault) :
                 LET db == Transaction(Db(shifts, revisions),
                                       Db(Update(shifts, done, Row), revisions),
                                       fault)
                 IN  /\ shifts' = db.shifts
                     /\ revisions' = db.revisions
           /\ audit_logs' =
                 LogOutcome(audit_logs, "PUBLISH_SHIFTS", publisher_id, NoneId,
                            ToString(Cardinality(rows)) \o " shifts published", fault)
    /\ result' = Returned("publish_shifts", group_id, ~Raises(fault))

RejectFilter(s, group_id) ==
    s.group_id = group_id /\ s.status \in {"adjusted", "pending", "approved"}

\* Faulty variant: a rejected shift gets the status rejected.
RejectRow_Rejected(s, rejecter_id, now, reason) ==
    [s EXCEPT !.status = "rejected", !.rejected_by = rejecter_id,
              !.rejected_at = now, !.rejection_reason = reason]

RejectRow(s, rejecter_id, now, reason) ==
    [s EXCEPT !.status = "draft", !.rejected_by = rejecter_id,
              !.rejected_at = now, !.rejection_reason = reason]

reject_shifts(group_id, rejecter_id, reason, now, fault) ==
    /\ BagCardinality(audit_logs) < MaxAudit
    /\ Inject(fault)
    /\ LET rows == {i \in Ids(shifts) : RejectFilter(shifts[i], group_id)}
           Row(s) == RejectRow(s, rejecter_id, now, reason)
       IN  /\ \E done \in Touched(rows, fault) :
                 LET db == Transaction(Db(shifts, revisions),
                                       Db(Update(shifts, done, Row), revisions),
                                       fault)
                 IN  /\ shifts' = db.shifts
                     /\ revisions' = db.revisions
           /\ audit_logs' =
                 LogOutcome(audit_logs, "REJECT_SHIFTS", rejecter_id, NoneId,
                            ToString(Cardinality(rows)) \o " shifts rejected: "
                              \o reason, fault)
    /\ result' = Returned("reject_shifts", group_id, ~Raises(fault))

Next ==
    \/ \E batch \in Batches, a \in ActorIds, now \in Instants, f \in Faults :
         /\ Len(shifts) + Len(batch) <= MaxShifts
         /\ create_draft_shifts(batch, a, now, f)
         /\ UNCHANGED <<flow_vars, call, sessions>>
    \/ \E g \in Groups, a \in ActorIds, f \in Faults :
         start_adjustment(g, a, f) /\ UNCHANGED <<flow_vars, call, sessions>>
    \/ \E id \in 1..(MaxShifts + 1), nd \in NewDatas, a \in ActorIds,
          r \in Reasons, now \in Instants, f \in Faults :
         adjust_shift(id, nd, a, r, now, f) /\ UNCHANGED <<flow_vars, call, sessions>>
    \/ \E g \in Groups, a \in ActorIds, now \in Instants, f \in Faults :
         approve_shifts(g, a, now, f) /\ UNCHANGED <<flow_vars, call, sessions>>
    \/ \E g \in Groups, a \in ActorIds, now \in Instants, f \in Faults :
         publish_shifts(g, a, now, f) /\ UNCHANGED <<flow_vars, call, sessions>>
    \/ \E g \in Groups, a \in ActorIds, r \in Reasons, now \in Instants,
          f \in Faults :
         reject_shifts(g, a, r, now, f) /\ UNCHANGED <<flow_vars, call, sessions>>

Spec == Init /\ [][Next]_vars

---------------------------------------------------------------------------
(* Calls that overlap.  Handlers run in threads and processes of their own, *)
(* each with its own session (scoped_session): a call loads its rows with   *)
(* its query, mutates its copies, and writes at session.commit(); other     *)
(* calls may query and commit in between.  The engine is created without an *)
(* isolation level and no row is locked (no with_for_update, no             *)
(* version_id_col): the rows a call loaded are not refreshed before it      *)
(* writes.                                                                  *)

MaxSessions == 3

\* A call in a session of its own.  loaded: the rows of its query by id, as
\* read; pc: "loaded" after the query, "done" when the call has returned.
Session(op, target, params, loaded, pc, ok) ==
    [op |-> op, target |-> target, params |-> params, loaded |-> loaded,
     pc |-> pc, ok |-> ok]

\* The flush of one row: UPDATE shifts SET <the columns whose value the
\* session changed> WHERE id = <id>.  The other columns keep what is stored.
Flush(stored, loaded, pending) ==
    [column \in DOMAIN stored |->
       IF pending[column] # loaded[column] THEN pending[column]
                                           ELSE stored[column]]

\* The rows a query returns, by id.
Loaded(ids) == [i \in ids |-> shifts[i]]

\* The table after the flush of the session's rows.
Flushed(loaded, Row(_)) ==
    [i \in Ids(shifts) |->
       IF i \in DOMAIN loaded
         THEN Flush(shifts[i], loaded[i], Row(loaded[i]))
         ELSE shifts[i]]

\* adjust_shift up to the guard (lines 147-152): the query, and return False
\* when there is no such shift or it cannot be edited
adjust_shift_query(shift_id, new_data, admin_id, reason) ==
    /\ Len(sessions) < MaxSessions
    /\ LET found == shift_id \in Ids(shifts) /\ can_edit(shifts[shift_id])
           params == [new_data |-> new_data, admin_id |-> admin_id,
                      reason |-> reason]
       IN  /\ sessions' =
                Append(sessions,
                       Session("adjust_shift", ToString(shift_id), params,
                               Loaded(IF found THEN {shift_id} ELSE {}),
                               IF found THEN "loaded" ELSE "done", FALSE))
           /\ result' = IF found THEN result
                                 ELSE Returned("adjust_shift",
                                               ToString(shift_id), FALSE)
    /\ UNCHANGED <<shifts, revisions, audit_logs, faults, flow_vars, call>>

\* adjust_shift from the mutation of the loaded row to the return (lines
\* 154-219); fault "commit": the database refuses the write
adjust_shift_commit(p, now, fault) ==
    /\ p \in DOMAIN sessions
    /\ sessions[p].op = "adjust_shift"
    /\ sessions[p].pc = "loaded"
    /\ BagCardinality(audit_logs) < MaxAudit
    /\ Inject(fault)
    /\ LET loaded == sessions[p].loaded
           shift_id == CHOOSE i \in DOMAIN loaded : TRUE
           new_data == sessions[p].params.new_data
           admin_id == sessions[p].params.admin_id
           revs == Diffs(shift_id, loaded[shift_id], new_data, admin_id,
                         sessions[p].params.reason, 1)
           Row(s) == AdjustRow(s, new_data, admin_id, now)
           db == Transaction(Db(shifts, revisions),
                             Db(Flushed(loaded, Row), revisions \o revs),
                             fault)
       IN  /\ loaded[shift_id].version < MaxVersion
           /\ Len(revisions) + Len(revs) <= MaxRevisions
           /\ shifts' = db.shifts
           /\ revisions' = db.revisions
           /\ audit_logs' =
                 LogOutcome(audit_logs, "ADJUST_SHIFT", admin_id, shift_id,
                            ToString(Len(revs)) \o " fields changed", fault)
           /\ result' = Returned("adjust_shift", ToString(shift_id),
                                 ~Raises(fault))
    /\ sessions' = [sessions EXCEPT ![p].pc = "done", ![p].ok = ~Raises(fault)]
    /\ UNCHANGED <<flow_vars, call>>

\* approve_shifts: the query (lines 233-240)
approve_shifts_query(group_id, approver_id) ==
    /\ Len(sessions) < MaxSessions
    /\ sessions' =
         Append(sessions,
                Session("approve_shifts", group_id,
                        [approver_id |-> approver_id],
                        Loaded({i \in Ids(shifts) :
                                  ApproveFilter(shifts[i], group_id)}),
                        "loaded", FALSE))
    /\ UNCHANGED <<shifts, revisions, audit_logs, result, faults, flow_vars,
                   call>>

\* approve_shifts from the loop to the return (lines 242-265)
approve_shifts_commit(p, now, fault) ==
    /\ p \in DOMAIN sessions
    /\ sessions[p].op = "approve_shifts"
    /\ sessions[p].pc = "loaded"
    /\ BagCardinality(audit_logs) < MaxAudit
    /\ Inject(fault)
    /\ LET loaded == sessions[p].loaded
           approver_id == sessions[p].params.approver_id
           Row(s) == ApproveRow(s, approver_id, now)
           db == Transaction(Db(shifts, revisions),
                             Db(Flushed(loaded, Row), revisions), fault)
       IN  /\ shifts' = db.shifts
           /\ revisions' = db.revisions
           /\ audit_logs' =
                 LogOutcome(audit_logs, "APPROVE_SHIFTS", approver_id, NoneId,
                            ToString(Cardinality(DOMAIN loaded))
                              \o " shifts approved", fault)
           /\ result' = Returned("approve_shifts", sessions[p].target,
                                 ~Raises(fault))
    /\ sessions' = [sessions EXCEPT ![p].pc = "done", ![p].ok = ~Raises(fault)]
    /\ UNCHANGED <<flow_vars, call>>

NextOverlap ==
    \/ \E batch \in Batches, a \in ActorIds, now \in Instants :
         /\ Len(shifts) + Len(batch) <= MaxShifts
         /\ create_draft_shifts(batch, a, now, "none")
         /\ UNCHANGED <<flow_vars, call, sessions>>
    \/ \E id \in 1..MaxShifts, nd \in NewDatas, a \in ActorIds, r \in Reasons :
         adjust_shift_query(id, nd, a, r)
    \/ \E p \in 1..MaxSessions, now \in Instants, f \in {"none", "commit"} :
         adjust_shift_commit(p, now, f)
    \/ \E g \in Groups, a \in ActorIds : approve_shifts_query(g, a)
    \/ \E p \in 1..MaxSessions, now \in Instants, f \in {"none", "commit"} :
         approve_shifts_commit(p, now, f)

SpecOverlap == Init /\ [][NextOverlap]_vars

---------------------------------------------------------------------------
(* Config *)

MAX_WORK_HOURS_PER_DAY == 8
MAX_WORK_HOURS_PER_WEEK == 40
MAX_STAFF_PER_SHIFT == 10
MIN_STAFF_PER_SHIFT == 2

---------------------------------------------------------------------------
(* ShiftOptimizer.  A date is counted in days from 2023-12-31: day 1 is    *)
(* Monday 2024-01-01, day 366 is Tuesday 2024-12-31, day 367 is 2025-01-01. *)

\* date.weekday(): 0 = Monday
weekday(date) == (date - 1) % 7

\* A ShiftRequest row.
ShiftRequest(id, user_id, date, start_time, end_time, priority, status) ==
    [id |-> id, user_id |-> user_id, date |-> date, start_time |-> start_time,
     end_time |-> end_time, priority |-> priority, status |-> status]

\* A User row, as far as the optimizer reads it.
User(id, is_active) == [id |-> id, is_active |-> is_active]

Range(seq) == {seq[i] : i \in DOMAIN seq}

generate_date_range(start_date, end_date) ==
    [i \in 1..(end_date - start_date + 1) |-> start_date + i - 1]

\* The Monday on or before date.
RECURSIVE MondayBefore(_)
MondayBefore(current) ==
    IF weekday(current) # 0 THEN MondayBefore(current - 1) ELSE current

RECURSIVE WeekStartsFrom(_, _)
WeekStartsFrom(current, last) ==
    IF current <= last
      THEN <<current>> \o WeekStartsFrom(current + 7, last)
      ELSE <<>>

get_week_starts(date_range) ==
    IF date_range = <<>>
      THEN <<>>
      ELSE WeekStartsFrom(MondayBefore(date_range[1]),
                          date_range[Len(date_range)])

\* Faulty variant: users that are not active get variables too.
HasVariable_Inactive(request, users, date_range) ==
    /\ \E i \in DOMAIN users : users[i].id = request.user_id
    /\ request.date \in Range(date_range)

\* shift_vars[user.id][date][request.id] exists: the user is in the list and
\* active, the request is the user's and its date is in the range.
HasVariable(request, users, date_range) ==
    /\ \E i \in DOMAIN users :
         users[i].is_active /\ users[i].id = request.user_id
    /\ request.date \in Range(date_range)

\* The decision variables, each named by its keys <<user.id, date, request.id>>.
shift_vars(requests, users, date_range) ==
    {<<r.user_id, r.date, r.id>> :
       r \in {q \in Range(requests) : HasVariable(q, users, date_range)}}

\* Faulty variant: the weight grows with the priority number.
weight_Inverted(request) == request.priority

weight(request) == 4 - request.priority

RequestById(requests, request_id) ==
    LET i == CHOOSE j \in DOMAIN requests :
                 requests[j].id = request_id /\
                 \A k \in 1..(j - 1) : requests[k].id # request_id
    IN  requests[i]

RECURSIVE TotalSatisfaction(_, _)
\* the objective at the assignment that sets the variables in selected to 1
TotalSatisfaction(selected, requests) ==
    IF selected = {}
      THEN 0
      ELSE LET v == CHOOSE x \in selected : TRUE
           IN  weight(RequestById(requests, v[3]))
                 + TotalSatisfaction(selected \ {v}, requests)

\* Faulty variant: the minimum is not enforced.
StaffConstraint_NoMin(selected, variables, date_range) ==
    \A date \in Range(date_range) :
       LET daily_workers == {v \in variables : v[2] = date}
       IN  daily_workers # {} =>
             Cardinality(selected \cap daily_workers) <= MAX_STAFF_PER_SHIFT

\* Faulty variant: the minimum is enforced only on the dates for which
\* enough workers have a request.
StaffConstraint_MinWhenStaffable(selected, variables, date_range) ==
    \A date \in Range(date_range) :
       LET daily_workers == {v \in variables : v[2] = date}
       IN  daily_workers # {} =>
             /\ Cardinality({v[1] : v \in daily_workers}) >= MIN_STAFF_PER_SHIFT
                  => Cardinality(selected \cap daily_workers)
                       >= MIN_STAFF_PER_SHIFT
             /\ Cardinality(selected \cap daily_workers) <= MAX_STAFF_PER_SHIFT

\* Constraint 1: MinStaff_<date> and MaxStaff_<date>
StaffConstraint(selected, variables, date_range) ==
    \A date \in Range(date_range) :
       LET daily_workers == {v \in variables : v[2] = date}
       IN  daily_workers # {} =>
             /\ Cardinality(selected \cap daily_workers) >= MIN_STAFF_PER_SHIFT
             /\ Cardinality(selected \cap daily_workers) <= MAX_STAFF_PER_SHIFT

\* Faulty variant: the constraint is left out.
OneShiftPerDay_Missing(selected, variables) == TRUE

\* Constraint 2: OneShiftPerDay_u<user_id>_d<date>
OneShiftPerDay(selected, variables) ==
    \A v \in variables :
       Cardinality({s \in selected : s[1] = v[1] /\ s[2] = v[2]}) <= 1

\* Faulty variant: the number of days is compared with the cap in hours.
WeeklyHours_CapInHours(selected, variables, date_range) ==
    \A v \in variables :
       \A w \in DOMAIN get_week_starts(date_range) :
          LET week_start == get_week_starts(date_range)[w]
              week_dates == {week_start + i : i \in 0..6}
              week_shifts == {s \in variables :
                                s[1] = v[1] /\ s[2] \in week_dates}
          IN  week_shifts # {} =>
                Cardinality(selected \cap week_shifts)
                   <= MAX_WORK_HOURS_PER_WEEK

\* Constraint 3: WeeklyHours_u<user_id>_w<week_start>
WeeklyHours(selected, variables, date_range) ==
    \A v \in variables :
       \A w \in DOMAIN get_week_starts(date_range) :
          LET week_start == get_week_starts(date_range)[w]
              week_dates == {week_start + i : i \in 0..6}
              week_shifts == {s \in variables :
                                /\ s[1] = v[1]
                                /\ s[2] \in week_dates
                                /\ s[2] \in Range(date_range)}
              max_days == MAX_WORK_HOURS_PER_WEEK \div 8
          IN  week_shifts # {} =>
                Cardinality(selected \cap week_shifts) <= max_days

\* The assignments that satisfy the constraints of the problem.
Solutions(variables, date_range) ==
    {selected \in SUBSET variables :
       /\ StaffConstraint(selected, variables, date_range)
       /\ OneShiftPerDay(selected, variables)
       /\ WeeklyHours(selected, variables, date_range)}

\* prob.solve(self.solver): the solver ends Optimal with one of the feasible
\* assignments of maximal objective, or not Optimal when there is none.
solve(variables, requests, date_range) ==
    LET solutions == Solutions(variables, date_range)
        values == {TotalSatisfaction(s, requests) : s \in solutions}
        best == CHOOSE b \in values : \A x \in values : x <= b
    IN  IF solutions = {}
          THEN {[status |-> "Infeasible", selected |-> {}]}
          ELSE {[status |-> "Optimal", selected |-> s] :
                  s \in {x \in solutions :
                           TotalSatisfaction(x, requests) = best}}

\* The loop over shift_vars that builds created_shifts: users in the order of
\* the list, dates in the order of the range, requests in the order of the
\* list.
CreatedShifts(selected, requests, users, date_range, group_id, created_by, now) ==
    LET D == Len(date_range)
        R == Len(requests)
        U(n) == users[((n - 1) \div (D * R)) + 1]
        date(n) == date_range[(((n - 1) \div R) % D) + 1]
        request(n) == requests[((n - 1) % R) + 1]
        Chosen(n) ==
            /\ request(n).user_id = U(n).id
            /\ request(n).date = date(n)
            /\ <<U(n).id, date(n), request(n).id>> \in selected
        loop == SelectSeq([n \in 1..(Len(users) * D * R) |-> n], Chosen)
    IN  [k \in DOMAIN loop |->
           LET r == RequestById(requests, request(loop[k]).id)
           IN  [NewShift(group_id, U(loop[k]).id, date(loop[k]),
                         r.start_time, r.end_time)
                  EXCEPT !.created_by = created_by, !.created_at = now]]

\* The lists create_shifts can return.
create_shifts(start_date, end_date, requests, users, group_id, created_by, now) ==
    LET date_range == generate_date_range(start_date, end_date)
        variables == shift_vars(requests, users, date_range)
    IN  {IF s.status = "Optimal"
           THEN CreatedShifts(s.selected, requests, users, date_range,
                              group_id, created_by, now)
           ELSE <<>> :
         s \in solve(variables, requests, date_range)}

---------------------------------------------------------------------------
(* The arguments create_shifts is studied on *)

MaxRequests == 3

\* What a worker may ask for: worker 3 is not active (or not in the list),
\* day 2 is outside the range 1..1.
RequestChoices ==
    {[user_id |-> u, date |-> d, start_time |-> w[1], end_time |-> w[2],
      priority |-> w[3]] :
       u \in 1..3, d \in 1..2, w \in {<<9, 17, 1>>, <<10, 18, 2>>}}

\* The rows of a table filled with the choices c, all pending.
RequestRows(c) ==
    [i \in DOMAIN c |->
       ShiftRequest(i, c[i].user_id, c[i].date, c[i].start_time,
                    c[i].end_time, c[i].priority, "pending")]

RequestLists ==
    {RequestRows(c) :
       c \in UNION {[1..n -> RequestChoices] : n \in 0..MaxRequests}}

WorkerLists ==
    {<<User(1, TRUE), User(2, TRUE), User(3, FALSE)>>,
     <<User(1, TRUE), User(2, TRUE)>>}

Arguments(start_date, end_date, requests, users) ==
    [start_date |-> start_date, end_date |-> end_date, requests |-> requests,
     users |-> users, group_id |-> "g1", created_by |-> 1, now |-> 1]

\* Few requests of few workers over one or two days.
SmallArguments ==
    {Arguments(1, end, requests, users) :
       end \in 1..2, requests \in RequestLists, users \in WorkerLists}

\* Workers 1 and 2 ask for every day of the range, workers 3 and 4 for its
\* last day: Monday to Saturday, Monday to Friday, and Wednesday to Monday.
WeekRequests(start_date, end_date) ==
    RequestRows(
      [i \in 1..(2 * (end_date - start_date + 1)) |->
         [user_id |-> ((i - 1) % 2) + 1,
          date |-> start_date + ((i - 1) \div 2),
          start_time |-> 9, end_time |-> 17, priority |-> ((i - 1) % 2) + 1]]
      \o [i \in 1..2 |->
            [user_id |-> i + 2, date |-> end_date, start_time |-> 13,
             end_time |-> 21, priority |-> 3]])

WeekArguments ==
    {Arguments(r[1], r[2], WeekRequests(r[1], r[2]),
               [i \in 1..4 |-> User(i, TRUE)]) :
       r \in {<<1, 6>>, <<1, 5>>, <<3, 8>>}}

\* More workers than MAX_STAFF_PER_SHIFT ask for the same day; the last one
\* asks with the lowest priority.
CrowdArguments ==
    {Arguments(1, 1,
               RequestRows([i \in 1..n |->
                  [user_id |-> i, date |-> 1, start_time |-> 9,
                   end_time |-> 17,
                   priority |-> IF i = n THEN 3 ELSE 1]]),
               [i \in 1..n |-> User(i, TRUE)]) :
       n \in {MAX_STAFF_PER_SHIFT, MAX_STAFF_PER_SHIFT + 1}}

OptimizerArguments == SmallArguments \cup WeekArguments \cup CrowdArguments

Called(fn, args) == [fn |-> fn, args |-> args, returned |-> FALSE, ret |-> <<>>]

InitOptimizer ==
    /\ InitTables
    /\ InitFlow
    /\ call \in {Called("create_shifts", a) : a \in OptimizerArguments}

create_shifts_returns ==
    /\ call.fn = "create_shifts"
    /\ ~call.returned
    /\ \E created_shifts \in
            create_shifts(call.args.start_date, call.args.end_date,
                          call.args.requests, call.args.users,
                          call.args.group_id, call.args.created_by,
                          call.args.now) :
         call' = [call EXCEPT !.returned = TRUE, !.ret = created_shifts]
    /\ UNCHANGED <<shifts, revisions, audit_logs, result, faults, flow_vars,
                 sessions>>

NextOptimizer == create_shifts_returns

SpecOptimizer == InitOptimizer /\ [][NextOptimizer]_vars

---------------------------------------------------------------------------
(* The generation flow: StaffHandler.handle_shift_request fills the table   *)
(* shift_requests, ManagerHandler.handle_create_shift turns its pending     *)
(* rows into a stored batch of shifts.  Several managers' commands can run  *)
(* at once, each in a thread with a session of its own: a run reads the     *)
(* tables when it queries and writes them when create_draft_shifts commits. *)

MaxRuns == 2

\* table users
UserTable == <<User(1, TRUE), User(2, TRUE), User(3, FALSE)>>

\* What the workers ask for in this flow.
FlowChoices ==
    {c \in RequestChoices : c.user_id \in 1..2 /\ c.priority = 1}

\* handle_shift_request: the parsed request is stored as a pending row
handle_shift_request(parsed) ==
    /\ Len(shift_requests) < MaxRequests
    /\ shift_requests' =
         Append(shift_requests,
                ShiftRequest(Len(shift_requests) + 1, parsed.user_id,
                             parsed.date, parsed.start_time, parsed.end_time,
                             parsed.priority, "pending"))
    /\ UNCHANGED <<shifts, revisions, audit_logs, result, faults, runs, sent,
                   call, sessions>>

\* session.query(ShiftRequest).filter(date >= start_date, date <= end_date,
\* status == PENDING).all()
QueryRequests(rows, start_date, end_date) ==
    SelectSeq(rows, LAMBDA r : /\ r.date >= start_date
                               /\ r.date <= end_date
                               /\ r.status = "pending")

\* session.query(UserModel).filter(UserModel.is_active == True).all()
QueryUsers(rows) == SelectSeq(rows, LAMBDA u : u.is_active)

\* f"{start_date.year}-{start_date.strftime('%m')}-W{start_date.isocalendar()[1]}"
GroupId(start_date) ==
    "2024-01-W" \o ToString(((start_date - 1) \div 7) + 1)

\* The messages to the manager.
NothingCreated == [kind |-> "nothing_created"]
ErrorMessage == [kind |-> "error"]
\* ShiftOptimizer.validate_shifts and the summary built from it
ResultMessage(batch) ==
    [kind |-> "created", total_shifts |-> Len(batch),
     unique_users |-> Cardinality({batch[i].user_id : i \in DOMAIN batch})]

\* The locals of a run of handle_create_shift.
Run(pc, start_date, end_date, requests, batch) ==
    [pc |-> pc, start_date |-> start_date, end_date |-> end_date,
     requests |-> requests, shifts |-> batch]

\* handle_create_shift up to the return of create_shifts (lines 58-93): the
\* queries, the optimizer and, for an empty list, the message and the return.
\* fault "query": the block raises, the except branch reports the error.
handle_create_shift_generate(manager_id, start_date, end_date, now, fault) ==
    /\ Len(runs) < MaxRuns
    /\ fault \in {"none", "query"}
    /\ Inject(fault)
    /\ LET requests == QueryRequests(shift_requests, start_date, end_date)
           users == QueryUsers(UserTable)
       IN  IF fault = "query"
             THEN /\ runs' = Append(runs, Run("done", start_date, end_date,
                                              <<>>, <<>>))
                  /\ sent' = Append(sent, <<ErrorMessage>>)
             ELSE \E batch \in create_shifts(start_date, end_date, requests,
                                             users, GroupId(start_date),
                                             manager_id, now) :
                     /\ runs' = Append(runs,
                                       Run(IF batch = <<>> THEN "done"
                                                           ELSE "created",
                                           start_date, end_date, requests,
                                           batch))
                     /\ sent' = Append(sent, IF batch = <<>>
                                               THEN <<NothingCreated>>
                                               ELSE <<>>)
    /\ UNCHANGED <<shifts, revisions, audit_logs, result, shift_requests, call,
                   sessions>>

\* The message after create_draft_shifts (lines 96-126); saved is the value
\* create_draft_shifts returned, which the handler does not read.
\* fault "notify": one of the lines 98-121 raises.
Notification(batch, saved, fault) ==
    IF fault = "notify" THEN ErrorMessage ELSE ResultMessage(batch)

\* handle_create_shift from create_draft_shifts to the end (lines 96-126)
handle_create_shift_save(p, manager_id, now, fault) ==
    /\ p \in DOMAIN runs
    /\ runs[p].pc = "created"
    /\ create_draft_shifts(runs[p].shifts, manager_id, now, fault)
    /\ runs' = [runs EXCEPT ![p].pc = "done"]
    /\ sent' = [sent EXCEPT
                  ![p] = Append(@, Notification(runs[p].shifts,
                                                ~Raises(fault), fault))]
    /\ UNCHANGED <<shift_requests, call, sessions>>

NextFlow ==
    \/ \E parsed \in FlowChoices : handle_shift_request(parsed)
    \/ \E m \in ActorIds, end_date \in 1..2, now \in Instants,
          f \in {"none", "query"} :
         handle_create_shift_generate(m, 1, end_date, now, f)
    \/ \E p \in 1..MaxRuns, m \in ActorIds, now \in Instants,
          f \in Faults \cup {"notify"} :
         handle_create_shift_save(p, m, now, f)

SpecFlow == Init /\ [][NextFlow]_vars

---------------------------------------------------------------------------
(* Python floats (IEEE 754 binary64, round to nearest, ties to even).       *)
(* The floats of this program are hours: 0.0, or at least 1/60 and below    *)
(* 128, so each is a multiple of 2^-58.  A float x is held as the three     *)
(* digits <<d2, d1, d0>> to the base 2^24 of the integer x * 2^60.          *)

FloatBase == 16777216
FloatScale == 4096

FloatZero == <<0, 0, 0>>

RECURSIVE Log2(_)
\* the position of the leading bit of n >= 1
Log2(n) == IF n < 2 THEN 0 ELSE 1 + Log2(n \div 2)

\* The float nearest to (d2, d1, d0 and, when inexact, a little more): the
\* leading bit is bit Log2(d2) of d2, the 53 bits kept end k bits above the
\* lowest bit of d0.
FloatRound(d2, d1, d0, inexact) ==
    IF d2 = 0
      THEN FloatZero
      ELSE LET k == Log2(d2) - 4
               drop == d0 % (2 ^ k)
               half == 2 ^ (k - 1)
               keep == d0 \div (2 ^ k)
               up == \/ drop > half
                     \/ drop = half /\ (inexact \/ keep % 2 = 1)
               n0 == (keep + (IF up THEN 1 ELSE 0)) * (2 ^ k)
               n1 == d1 + (n0 \div FloatBase)
               n2 == d2 + (n1 \div FloatBase)
           IN  <<n2, n1 % FloatBase, n0 % FloatBase>>

\* minutes / 60.0, for 0 <= minutes < 2880
FloatDiv60(minutes) ==
    LET n2 == minutes * FloatScale
        n1 == (n2 % 60) * FloatBase
        n0 == (n1 % 60) * FloatBase
    IN  FloatRound(n2 \div 60, n1 \div 60, n0 \div 60, n0 % 60 # 0)

\* x + y
FloatAdd(x, y) ==
    LET s0 == x[3] + y[3]
        s1 == x[2] + y[2] + (s0 \div FloatBase)
        s2 == x[1] + y[1] + (s1 \div FloatBase)
    IN  FloatRound(s2, s1 % FloatBase, s0 % FloatBase, FALSE)

\* x > hours, for an int hours
FloatGt(x, hours) ==
    \/ x[1] > hours * FloatScale
    \/ x[1] = hours * FloatScale /\ (x[2] > 0 \/ x[3] > 0)

---------------------------------------------------------------------------
(* get_duration_hours.  A time of day is a datetime.time: hour and minute. *)

Time(hour, minute) == [hour |-> hour, minute |-> minute]

\* Faulty variant: equal times count as crossing midnight.
duration_minutes_FullDay(start_time, end_time) ==
    LET start_minutes == start_time.hour * 60 + start_time.minute
        end_minutes == end_time.hour * 60 + end_time.minute
    IN  IF end_minutes <= start_minutes
          THEN end_minutes + 24 * 60 - start_minutes
          ELSE end_minutes - start_minutes

\* duration_minutes of Shift.get_duration_hours and of
\* ShiftRequest.get_duration_hours, which are the same text
duration_minutes(start_time, end_time) ==
    LET start_minutes == start_time.hour * 60 + start_time.minute
        end_minutes == end_time.hour * 60 + end_time.minute
    IN  IF end_minutes < start_minutes
          THEN end_minutes + 24 * 60 - start_minutes
          ELSE end_minutes - start_minutes

\* Shift.get_duration_hours (start_time and end_time are not nullable)
Shift_get_duration_hours(shift) ==
    FloatDiv60(duration_minutes(shift.start_time, shift.end_time))

\* ShiftRequest.get_duration_hours
ShiftRequest_get_duration_hours(request) ==
    FloatDiv60(duration_minutes(request.start_time, request.end_time))

\* The minutes of the times of day the functions are studied on.
Minutes == {0, 1, 30, 59}

Times == {Time(h, m) : h \in 0..23, m \in Minutes}

InitHours ==
    /\ InitTables
    /\ InitFlow
    /\ call \in
         {Called("Shift.get_duration_hours",
                 NewShift("g1", 1, 1, st, en)) : st, en \in Times}
         \cup
         {Called("ShiftRequest.get_duration_hours",
                 ShiftRequest(1, 1, 1, st, en, 1, "pending")) :
            st, en \in Times}

Shift_get_duration_hours_returns ==
    /\ call.fn = "Shift.get_duration_hours"
    /\ ~call.returned
    /\ call' = [call EXCEPT !.returned = TRUE,
                            !.ret = Shift_get_duration_hours(call.args)]
    /\ UNCHANGED <<shifts, revisions, audit_logs, result, faults, flow_vars,
                 sessions>>

ShiftRequest_get_duration_hours_returns ==
    /\ call.fn = "ShiftRequest.get_duration_hours"
    /\ ~call.returned
    /\ call' = [call EXCEPT !.returned = TRUE,
                            !.ret = ShiftRequest_get_duration_hours(call.args)]
    /\ UNCHANGED <<shifts, revisions, audit_logs, result, faults, flow_vars,
                 sessions>>

NextHours ==
    \/ Shift_get_duration_hours_returns
    \/ ShiftRequest_get_duration_hours_returns

SpecHours == InitHours /\ [][NextHours]_vars

---------------------------------------------------------------------------
(* LaborLawChecker *)

MAX_CONSECUTIVE_WORK_DAYS == 6

\* A LaborLawViolation without user_name and without the text of details:
\* found_on is the date, the week or the number of days that details names.
LaborLawViolation(user_id, violation_type, found_on, severity) ==
    [user_id |-> user_id, violation_type |-> violation_type,
     found_on |-> found_on, severity |-> severity]

\* [s for s in shifts if s.user_id == user_id]
UserShifts(shift_list, user_id) ==
    SelectSeq(shift_list, LAMBDA s : s.user_id = user_id)

RECURSIVE Keys(_, _)
\* The keys of a dict filled from the list of keys ks, in insertion order.
Keys(ks, n) ==
    IF n = 0
      THEN <<>>
      ELSE LET before == Keys(ks, n - 1)
           IN  IF ks[n] \in Range(before) THEN before
                                          ELSE Append(before, ks[n])

RECURSIVE Hours(_, _, _, _)
\* hours[key] after the first n shifts: 0 and then += get_duration_hours()
Hours(user_shifts, key_of, key, n) ==
    IF n = 0
      THEN FloatZero
      ELSE LET before == Hours(user_shifts, key_of, key, n - 1)
           IN  IF key_of[n] = key
                 THEN FloatAdd(before,
                               Shift_get_duration_hours(user_shifts[n]))
                 ELSE before

\* The first key of the dict whose hours exceed the cap, as a sequence of at
\* most one key.
FirstExceeding(user_shifts, key_of, cap) ==
    LET keys == Keys(key_of, Len(key_of))
        over == SelectSeq(keys,
                  LAMBDA k : FloatGt(Hours(user_shifts, key_of, k,
                                           Len(user_shifts)), cap))
    IN  SubSeq(over, 1, IF over = <<>> THEN 0 ELSE 1)

check_daily_work_hours(shift_list, user_id) ==
    LET user_shifts == UserShifts(shift_list, user_id)
        date_key == [n \in DOMAIN user_shifts |-> user_shifts[n].date]
        found == FirstExceeding(user_shifts, date_key, MAX_WORK_HOURS_PER_DAY)
    IN  [n \in DOMAIN found |->
           LaborLawViolation(user_id, "daily_hours_exceeded", found[n],
                             "critical")]

\* date.year, for the dates of 2024 and 2025
year(date) == IF date <= 366 THEN 2024 ELSE 2025

\* date.isocalendar()[1], for the dates up to 2025-12-28: the weeks 1 to 52
\* of 2024 are the days 1 to 364, week 1 of 2025 starts on day 365
\* (Monday 2024-12-30).
isocalendar_week(date) ==
    LET w == ((date - 1) \div 7) + 1
    IN  IF w <= 52 THEN w ELSE w - 52

\* f"{shift.date.year}-W{shift.date.isocalendar()[1]}"
WeekKey(date) ==
    ToString(year(date)) \o "-W" \o ToString(isocalendar_week(date))

check_weekly_work_hours(shift_list, user_id) ==
    LET user_shifts == UserShifts(shift_list, user_id)
        week_key == [n \in DOMAIN user_shifts |-> WeekKey(user_shifts[n].date)]
        found == FirstExceeding(user_shifts, week_key, MAX_WORK_HOURS_PER_WEEK)
    IN  [n \in DOMAIN found |->
           LaborLawViolation(user_id, "weekly_hours_exceeded", found[n],
                             "critical")]

\* Faulty variant: a shift of exactly 6h asks for rest too.
check_rest_time_FromSixHours(shift) ==
    LET duration == Shift_get_duration_hours(shift)
    IN  IF FloatGt(duration, 8)
          THEN <<LaborLawViolation(shift.user_id, "rest_time_required", 60,
                                   "warning")>>
          ELSE IF FloatGt(duration, 6) \/ duration = <<6 * FloatScale, 0, 0>>
                 THEN <<LaborLawViolation(shift.user_id, "rest_time_required",
                                          45, "warning")>>
                 ELSE <<>>

\* check_rest_time: at most one warning for the shift
check_rest_time(shift) ==
    LET duration == Shift_get_duration_hours(shift)
    IN  IF FloatGt(duration, 6) /\ ~FloatGt(duration, 8)
          THEN <<LaborLawViolation(shift.user_id, "rest_time_required", 45,
                                   "warning")>>
          ELSE IF FloatGt(duration, 8)
                 THEN <<LaborLawViolation(shift.user_id, "rest_time_required",
                                          60, "warning")>>
                 ELSE <<>>

RECURSIVE SortedByDate(_)
\* sorted(user_shifts, key=lambda s: s.date): stable
SortedByDate(user_shifts) ==
    IF user_shifts = <<>>
      THEN <<>>
      ELSE LET first == CHOOSE d \in {user_shifts[n].date : n \in DOMAIN user_shifts} :
                           \A n \in DOMAIN user_shifts : d <= user_shifts[n].date
           IN  SelectSeq(user_shifts, LAMBDA s : s.date = first)
                 \o SortedByDate(SelectSeq(user_shifts, LAMBDA s : s.date # first))

RECURSIVE ConsecutiveDays(_, _)
\* consecutive_days after the loop has handled sorted_shifts[n]
ConsecutiveDays(sorted_shifts, n) ==
    IF n = 1
      THEN 1
      ELSE IF sorted_shifts[n].date = sorted_shifts[n - 1].date + 1
             THEN ConsecutiveDays(sorted_shifts, n - 1) + 1
             ELSE 1

check_consecutive_work_days(shift_list, user_id) ==
    LET sorted_shifts == SortedByDate(UserShifts(shift_list, user_id))
        over == {n \in DOMAIN sorted_shifts :
                   ConsecutiveDays(sorted_shifts, n) > MAX_CONSECUTIVE_WORK_DAYS}
    IN  IF over = {}
          THEN <<>>
          ELSE <<LaborLawViolation(
                   user_id, "consecutive_days_exceeded",
                   ConsecutiveDays(sorted_shifts,
                                   CHOOSE n \in over : \A o \in over : n <= o),
                   "critical")>>

RECURSIVE RestTimes(_, _)
\* the loop over shifts that calls check_rest_time
RestTimes(shift_list, n) ==
    IF n = 0 THEN <<>>
             ELSE RestTimes(shift_list, n - 1) \o check_rest_time(shift_list[n])

RECURSIVE PerUser(_, _, _)
\* the loop over user_ids, taken in the order user_order
PerUser(shift_list, user_order, n) ==
    IF n = 0
      THEN <<>>
      ELSE PerUser(shift_list, user_order, n - 1)
             \o check_daily_work_hours(shift_list, user_order[n])
             \o check_weekly_work_hours(shift_list, user_order[n])
             \o check_consecutive_work_days(shift_list, user_order[n])

\* The orders in which a set can be iterated.
Orders(S) ==
    {o \in [1..Cardinality(S) -> S] : \A x \in S : \E i \in DOMAIN o : o[i] = x}

\* The lists check_all_violations can return: user_ids is a set, iterated in
\* some order.
check_all_violations(shift_list) ==
    {PerUser(shift_list, o, Len(o)) \o RestTimes(shift_list, Len(shift_list)) :
       o \in Orders({shift_list[n].user_id : n \in DOMAIN shift_list})}

\* The shift lists check_all_violations is studied on.
MaxChecked == 3

Spans ==
    {<<Time(9, 0), Time(17, 0)>>, <<Time(9, 0), Time(18, 0)>>,
     <<Time(9, 0), Time(15, 53)>>, <<Time(16, 0), Time(17, 6)>>,
     <<Time(18, 0), Time(18, 1)>>, <<Time(22, 0), Time(2, 0)>>}

CheckedShifts ==
    {NewShift("g1", u, d, w[1], w[2]) : u \in 1..2, d \in 1..2, w \in Spans}

\* Long shifts in the first weeks of 2024 and around the turn of the year:
\* the days 365 to 367 are Monday 2024-12-30 to Wednesday 2025-01-01.
WeekDates == {1, 2, 3, 8, 365, 366, 367}

WeekShifts ==
    {NewShift("g1", u, d, Time(8, 0), Time(22, 0)) : u \in 1..2, d \in WeekDates}

\* Shifts of 6h, 6h01, 8h and 8h01.
BoundaryShifts ==
    {NewShift("g1", 1, 1, Time(9, 0), en) :
       en \in {Time(15, 0), Time(15, 1), Time(17, 0), Time(17, 1)}}

\* A worker's shifts on the days of worked, latest day first, with a second
\* shift on the day doubled.
MaxDays == 8

RECURSIVE DayShifts(_, _, _)
DayShifts(worked, doubled, d) ==
    IF d = 0
      THEN <<>>
      ELSE (IF d \in worked
              THEN (IF d = doubled
                      THEN <<NewShift("g1", 1, d, Time(18, 0), Time(18, 1))>>
                      ELSE <<>>)
                     \o <<NewShift("g1", 1, d, Time(9, 0), Time(17, 0))>>
              ELSE <<>>)
             \o DayShifts(worked, doubled, d - 1)

DayLists ==
    {DayShifts(worked, doubled, MaxDays) :
       worked \in SUBSET (1..MaxDays), doubled \in 0..MaxDays}

ShiftLists(S) == UNION {[1..n -> S] : n \in 0..MaxChecked}

InitLabor ==
    /\ InitTables
    /\ InitFlow
    /\ call \in {Called("check_all_violations", l) :
                   l \in ShiftLists(CheckedShifts) \cup ShiftLists(WeekShifts)
                          \cup ShiftLists(BoundaryShifts) \cup DayLists}

check_all_violations_returns ==
    /\ call.fn = "check_all_violations"
    /\ ~call.returned
    /\ \E violations \in check_all_violations(call.args) :
         call' = [call EXCEPT !.returned = TRUE, !.ret = violations]
    /\ UNCHANGED <<shifts, revisions, audit_logs, result, faults, flow_vars,
                 sessions>>

NextLabor == check_all_violations_returns

SpecLabor == InitLabor /\ [][NextLabor]_vars

---------------------------------------------------------------------------
(* Properties *)

Last(seq) == seq[Len(seq)]

GroupOps == {"start_adjustment", "approve_shifts", "publish_shifts", "reject_shifts"}

\* The audit records the step added, as a bag.
NewRecords == audit_logs' (-) audit_logs

\* The step added exactly one audit record and removed none.
AppendedOne ==
    /\ audit_logs \sqsubseteq audit_logs'
    /\ BagCardinality(NewRecords) = 1

\* Some record the step added satisfies P.
Logged(P(_)) == \E rec \in BagToSet(NewRecords) : P(rec)

\* The step was a call during which the persistence layer failed in the
\* with block: in the loop or at session.commit().
FailedInBlock ==
    faults' # faults /\ Last(faults') \in {"mutate", "commit"}

Published(i) == shifts[i].status = "published"

\* Shift i belongs to group g and its status is in eligible.
Eligible(i, g, eligible) ==
    shifts[i].group_id = g /\ shifts[i].status \in eligible

\* C1: every change of a shift's status is one of the edges of the
\* transition table, made by the operation of that edge: draft->adjusting by
\* start_adjustment; draft/adjusting/adjusted->adjusted by adjust_shift;
\* adjusted/pending->approved by approve_shifts; approved->published by
\* publish_shifts; adjusting/adjusted/pending/approved->draft by
\* reject_shifts.  Rows are never deleted, and they are created in draft.
C1_Edges ==
    {<<"start_adjustment", "draft", "adjusting">>,
     <<"adjust_shift", "draft", "adjusted">>,
     <<"adjust_shift", "adjusting", "adjusted">>,
     <<"approve_shifts", "adjusted", "approved">>,
     <<"approve_shifts", "pending", "approved">>,
     <<"publish_shifts", "approved", "published">>,
     <<"reject_shifts", "adjusting", "draft">>,
     <<"reject_shifts", "adjusted", "draft">>,
     <<"reject_shifts", "pending", "draft">>,
     <<"reject_shifts", "approved", "draft">>}

C1_StatusChangesAreEdges ==
    [][/\ Len(shifts') >= Len(shifts)
       /\ \A i \in Ids(shifts) :
            shifts'[i].status # shifts[i].status =>
              <<result'.op, shifts[i].status, shifts'[i].status>> \in C1_Edges
       /\ \A i \in Ids(shifts') \ Ids(shifts) :
            result'.op = "create_draft_shifts" /\ shifts'[i].status = "draft"]_vars

\* A shift has gone draft -> adjusted -> approved -> published, another one
\* of the table is still in draft.
C1_Witness ==
    /\ result.op = "publish_shifts"
    /\ \E i, j \in Ids(shifts) :
         /\ Published(i) /\ shifts[i].version > 1
         /\ shifts[j].status = "draft"

\* C2: a reject_shifts(group) call that commits sets to draft exactly the
\* shifts of the group for which can_reject() is true (adjusting, adjusted,
\* pending, approved), recording rejecter, time and reason, and leaves every
\* other shift unchanged.
C2_RejectResetsEveryRejectable ==
    [][result'.op = "reject_shifts" /\ result'.ok =>
         \A i \in Ids(shifts) :
           IF shifts[i].group_id = result'.target /\ can_reject(shifts[i])
           THEN \E a \in ActorIds, now \in Instants, r \in Reasons :
                  shifts'[i] = [shifts[i] EXCEPT !.status = "draft",
                                                 !.rejected_by = a,
                                                 !.rejected_at = now,
                                                 !.rejection_reason = r]
           ELSE shifts'[i] = shifts[i]]_vars

\* C3: publish_shifts(group) changes only shifts of the group that are
\* approved, to published with publisher and time recorded; a published
\* shift is left unchanged by a further publish_shifts call, and no
\* operation changes the status of a published shift.
C3_PublishedIsFinal ==
    [][/\ result'.op = "publish_shifts" =>
            \A i \in Ids(shifts) :
              \/ shifts'[i] = shifts[i]
              \/ /\ Eligible(i, result'.target, {"approved"})
                 /\ \E a \in ActorIds, now \in Instants :
                      shifts'[i] = [shifts[i] EXCEPT !.status = "published",
                                                     !.published_by = a,
                                                     !.published_at = now]
       /\ \A i \in Ids(shifts) :
            /\ Published(i) => shifts'[i].status = "published"
            /\ Published(i) /\ result'.op = "publish_shifts"
                 => shifts'[i] = shifts[i]]_vars

\* The table holds one shift, of group g1, which is published; publish_shifts
\* was called on g1 twice, found the shift once and nothing once, and has
\* returned.
C3_Witness ==
    /\ result = Returned("publish_shifts", "g1", TRUE)
    /\ Len(shifts) = 1 /\ Published(1) /\ shifts[1].group_id = "g1"
    /\ BagIn(AuditLog("PUBLISH_SHIFTS", shifts[1].published_by, NoneId,
                      "1 shifts published", "SUCCESS"), audit_logs)
    /\ BagIn(AuditLog("PUBLISH_SHIFTS", shifts[1].published_by, NoneId,
                      "0 shifts published", "SUCCESS"), audit_logs)

\* C4: a successful adjust_shift call on a shift increases its version by
\* exactly 1; no other operation and no failed call changes a version; a
\* new row starts at version 1.  So a version never decreases and counts
\* the successful adjust_shift calls on the shift.
C4_VersionCountsAdjusts ==
    [][/\ \A i \in Ids(shifts) :
            shifts'[i].version =
              IF result' = Returned("adjust_shift", ToString(i), TRUE)
              THEN shifts[i].version + 1
              ELSE shifts[i].version
       /\ \A i \in Ids(shifts') \ Ids(shifts) : shifts'[i].version = 1]_vars

\* A shift was adjusted twice and then approved.
C4_Witness ==
    \E i \in Ids(shifts) :
      /\ shifts[i].version = 3
      /\ shifts[i].status = "approved"

\* C5: a successful adjust_shift call appends exactly one revision entry,
\* carrying the old and the new value, for each of user_id, start_time,
\* end_time that is in new_data with a value different from the shift's, and
\* none for a field that is absent or equal; the shift becomes adjusted and
\* its version grows by 1 even when nothing differs; no field other than the
\* three tracked ones and the adjuster, time, status and version changes, and
\* no other row changes.
C5_Tracked == {"user_id", "start_time", "end_time"}

C5_Adjusted == {"adjusted_by", "adjusted_at", "status", "version"}

C5_OneRevisionPerChangedField ==
    [][result'.op = "adjust_shift" /\ result'.ok =>
       \A id \in Ids(shifts), nd \in NewDatas, a \in ActorIds,
          r \in Reasons, now \in Instants, f \in Faults :
         adjust_shift(id, nd, a, r, now, f) =>
           LET old == shifts[id]
               new == shifts'[id]
               n == Len(revisions)
               added == [k \in 1..(Len(revisions') - n) |-> revisions'[n + k]]
               Of(field) == {k \in DOMAIN added : added[k].field_name = field}
           IN  /\ SubSeq(revisions', 1, n) = revisions
               /\ \A k \in DOMAIN added : added[k].field_name \in C5_Tracked
               /\ \A field \in C5_Tracked :
                    IF field \in DOMAIN nd /\ nd[field] # old[field]
                    THEN /\ Cardinality(Of(field)) = 1
                         /\ \A k \in Of(field) :
                              /\ added[k].shift_id = id
                              /\ added[k].old_value = ToString(old[field])
                              /\ added[k].new_value = ToString(nd[field])
                              /\ added[k].changed_by = a
                              /\ added[k].change_reason = r
                         /\ new[field] = nd[field]
                    ELSE Of(field) = {} /\ new[field] = old[field]
               /\ new.status = "adjusted"
               /\ new.version = old.version + 1
               /\ new.adjusted_by = a /\ new.adjusted_at = now
               /\ \A field \in DOMAIN old \ (C5_Tracked \cup C5_Adjusted) :
                    new[field] = old[field]
               /\ \A i \in Ids(shifts) \ {id} : shifts'[i] = shifts[i]]_vars

\* A zero-diff adjust has succeeded: version 2, adjusted, an empty ledger.
C5_Witness ==
    /\ result = Returned("adjust_shift", "1", TRUE)
    /\ shifts[1].status = "adjusted"
    /\ shifts[1].version = 2
    /\ revisions = <<>>

\* C6: a call of start_adjustment, approve_shifts or publish_shifts with
\* group id g whose transaction commits changes every shift of g in the
\* operation's eligible set (draft; adjusted or pending; approved) to
\* adjusting, approved, published, and leaves unchanged every shift of g
\* outside that set and every shift of another group; a call whose
\* transaction fails changes no shift at all.
C6_Effect(eligible, status) ==
    \A i \in Ids(shifts) :
      IF result'.ok /\ Eligible(i, result'.target, eligible)
      THEN shifts'[i].status = status /\ shifts'[i] # shifts[i]
      ELSE shifts'[i] = shifts[i]

C6_GroupTransitionFrame ==
    [][/\ Len(shifts') = Len(shifts) \/ result'.op = "create_draft_shifts"
       /\ result'.op = "start_adjustment" => C6_Effect({"draft"}, "adjusting")
       /\ result'.op = "approve_shifts" =>
            C6_Effect({"adjusted", "pending"}, "approved")
       /\ result'.op = "publish_shifts" => C6_Effect({"approved"}, "published")]_vars

\* approve_shifts has approved one shift of a group, left a draft shift of
\* the same group alone, and a shift of another group exists.
C6_Witness ==
    /\ result.op = "approve_shifts" /\ result.ok
    /\ \E i, j \in Ids(shifts) :
         /\ shifts[i].group_id = result.target
         /\ shifts[j].group_id = result.target
         /\ shifts[i].status = "approved"
         /\ shifts[j].status = "draft"

\* C7: a group-scoped transition called on a group with no shift in a valid
\* source state of the operation changes no shift and returns False.
C7_Sources ==
    [op \in GroupOps |->
       CASE op = "start_adjustment" -> {"draft"}
         [] op = "approve_shifts" -> {"adjusted", "pending"}
         [] op = "publish_shifts" -> {"approved"}
         [] op = "reject_shifts" -> {"adjusting", "adjusted", "pending", "approved"}]

C7_NothingEligibleReportsFailure ==
    [][/\ result'.op \in GroupOps
       /\ \A i \in Ids(shifts) :
            ~Eligible(i, result'.target, C7_Sources[result'.op])
       => shifts' = shifts /\ result'.ok = FALSE]_vars

\* C8: an operation in which the persistence layer fails while the rows are
\* being mutated or at commit returns False and leaves the shifts and the
\* revision ledger exactly as they were before the call.
C8_FailureRollsBack ==
    [][FailedInBlock =>
         /\ result'.ok = FALSE
         /\ shifts' = shifts
         /\ revisions' = revisions]_vars

\* adjust_shift on an editable shift has failed in its block and said so.
C8_Witness ==
    /\ result = Returned("adjust_shift", "1", FALSE)
    /\ faults = <<"mutate">>
    /\ Len(shifts) >= 1 /\ can_edit(shifts[1])
    /\ BagIn(AuditLog("ADJUST_SHIFT", 1, NoneId, NoneText, "FAILURE"), audit_logs)

\* C9: the audit record of a transition is written together with its state
\* change: whenever an operation has changed the shifts or the ledger, it has
\* added its one SUCCESS record.
C9_AuditWrittenWithChange ==
    [][shifts' # shifts \/ revisions' # revisions =>
         AppendedOne /\ Logged(LAMBDA rec : rec.result = "SUCCESS")]_vars

\* C10: every call of a workflow operation adds exactly one audit record,
\* which names the actor and the action and says SUCCESS or FAILURE as the
\* call returned True or False, a refused adjust_shift included.  Stated for
\* the calls during which the persistence layer does not fail.
C10_Action ==
    [op \in GroupOps \cup {"create_draft_shifts", "adjust_shift"} |->
       CASE op = "create_draft_shifts" -> "CREATE_DRAFT_SHIFTS"
         [] op = "start_adjustment" -> "START_ADJUSTMENT"
         [] op = "adjust_shift" -> "ADJUST_SHIFT"
         [] op = "approve_shifts" -> "APPROVE_SHIFTS"
         [] op = "publish_shifts" -> "PUBLISH_SHIFTS"
         [] op = "reject_shifts" -> "REJECT_SHIFTS"]

C10_OneAuditRecordPerCall ==
    [][faults' = faults =>
         /\ AppendedOne
         /\ Logged(LAMBDA rec :
                     /\ rec.action = C10_Action[result'.op]
                     /\ rec.actor_id \in ActorIds
                     /\ rec.result = IF result'.ok THEN "SUCCESS" ELSE "FAILURE")]_vars

\* C24: a call of adjust_shift during which the persistence layer does not
\* fail returns True exactly when the shift exists and is in draft, adjusting
\* or adjusted; a call on a missing shift or on one in another status returns
\* False and leaves every shift and the revision ledger as they were.
C24_Editable(id) ==
    id \in Ids(shifts) /\ shifts[id].status \in {"draft", "adjusting", "adjusted"}

C24_AdjustRefusesUneditable ==
    [][\A id \in 1..(MaxShifts + 1) :
         (result'.op = "adjust_shift" /\ result'.target = ToString(id)) =>
           /\ ~FailedInBlock => (result'.ok <=> C24_Editable(id))
           /\ ~C24_Editable(id) =>
                /\ result'.ok = FALSE
                /\ shifts' = shifts
                /\ revisions' = revisions]_vars

\* adjust_shift was refused on a shift that had been adjusted and approved,
\* with no failure of the persistence layer.
C24_Witness ==
    /\ faults = <<>>
    /\ result.op = "adjust_shift" /\ ~result.ok
    /\ \E i \in Ids(shifts) :
         /\ result.target = ToString(i)
         /\ shifts[i].status \in {"approved", "published"}
         /\ shifts[i].version = 2

\* C25: no shift is ever in status pending or rejected.
C25_NeverPendingNorRejected ==
    \A i \in Ids(shifts) : shifts[i].status \notin {"pending", "rejected"}

\* an approved shift was rejected: it is a draft that carries the rejecter
\* and the approver
C25_Witness ==
    /\ result = Returned("reject_shifts", "g1", TRUE)
    /\ \E i \in Ids(shifts) :
         /\ shifts[i].status = "draft"
         /\ shifts[i].rejected_by # NoneId
         /\ shifts[i].approved_by # NoneId

\* C26: an approved or published shift has version 2 or more and an
\* adjuster, a published shift also an approver and a publisher; no step
\* takes a shift from draft or adjusting to approved or published.
C26_Adjusted(s) ==
    /\ s.status \in {"approved", "published"} =>
         s.version >= 2 /\ s.adjusted_by # NoneId
    /\ s.status = "published" =>
         s.approved_by # NoneId /\ s.published_by # NoneId

C26_ApprovedWasAdjusted ==
    [][/\ \A i \in Ids(shifts') : C26_Adjusted(shifts'[i])
       /\ \A i \in Ids(shifts) :
            shifts[i].status \in {"draft", "adjusting"} =>
              shifts'[i].status \notin {"approved", "published"}]_vars

\* a group was approved and published while one of its shifts had not been
\* adjusted: that shift is still under adjustment, at version 1
C26_Witness ==
    /\ result.op = "publish_shifts" /\ result.ok
    /\ \E i, j \in Ids(shifts) :
         /\ shifts[i].group_id = result.target
         /\ shifts[j].group_id = result.target
         /\ shifts[i].status = "published"
         /\ shifts[j].status = "adjusting"
         /\ shifts[j].version = 1

\* the positions of the ledger rv that hold the entries of a field of a shift
C27_Entries(rv, id, field) ==
    {k \in DOMAIN rv : rv[k].shift_id = id /\ rv[k].field_name = field}

\* the ledger rv agrees with the rows sh: for every field of a shift with
\* entries, the newest entry holds the current value as its new value, and
\* every entry but the oldest holds as its old value the new value of the entry
\* before it
C27_Consistent(sh, rv) ==
    \A id \in Ids(sh), field \in C5_Tracked :
       LET entries == C27_Entries(rv, id, field)
       IN  \A k \in entries :
              IF \E l \in entries : l > k
                THEN LET next == CHOOSE l \in entries :
                                   l > k /\ \A m \in entries : m > k => l <= m
                     IN  rv[next].old_value = rv[k].new_value
                ELSE rv[k].new_value = Str(sh[id][field])

\* C27: every step leaves the entries of the ledger in place and adds, for
\* each tracked field of a shift it changes, one entry from the value before
\* to the value after, and no other entry, so that the first entry of a
\* field starts at the value at creation; the ledger agrees with the shifts
\* after every step.
C27_LedgerFollowsShifts ==
    [][/\ Len(revisions') >= Len(revisions)
       /\ SubSeq(revisions', 1, Len(revisions)) = revisions
       /\ \A id \in Ids(shifts), field \in C5_Tracked :
            LET added == C27_Entries(revisions', id, field)
                           \ DOMAIN revisions
            IN  IF shifts'[id][field] # shifts[id][field]
                  THEN /\ Cardinality(added) = 1
                       /\ \A k \in added :
                            /\ revisions'[k].old_value = Str(shifts[id][field])
                            /\ revisions'[k].new_value = Str(shifts'[id][field])
                  ELSE added = {}
       /\ \A k \in DOMAIN revisions' :
            revisions'[k].shift_id \in Ids(shifts)
              /\ revisions'[k].field_name \in C5_Tracked
       /\ C27_Consistent(shifts', revisions')]_vars

\* end_time of a shift was changed and changed back: two entries
C27_Witness ==
    \E k, l \in DOMAIN revisions :
       /\ k < l
       /\ revisions[k].shift_id = revisions[l].shift_id
       /\ revisions[k].field_name = "end_time"
       /\ revisions[l].field_name = "end_time"
       /\ revisions[l].new_value = revisions[k].old_value

\* shifts i and j are two shifts of one group for one worker on one date
C28_DoubleBooked(i, j) ==
    /\ i # j
    /\ shifts[i].group_id = shifts[j].group_id
    /\ shifts[i].date = shifts[j].date
    /\ shifts[i].user_id = shifts[j].user_id

\* C28: a call of adjust_shift on an editable shift that names a worker who
\* already holds another shift of the group on the date, and during which
\* persistence does not fail, returns True and gives the shift that worker.
C28_AdjustIsNotValidated ==
    [][\A id \in Ids(shifts), nd \in NewDatas, a \in ActorIds,
          r \in Reasons, now \in Instants, f \in {"none", "log"} :
         (/\ adjust_shift(id, nd, a, r, now, f)
          /\ C24_Editable(id)
          /\ "user_id" \in DOMAIN nd
          /\ \E j \in Ids(shifts) \ {id} :
               /\ shifts[j].group_id = shifts[id].group_id
               /\ shifts[j].date = shifts[id].date
               /\ shifts[j].user_id = nd["user_id"])
         => /\ result'.ok
            /\ shifts'[id].user_id = nd["user_id"]
            /\ \E j \in Ids(shifts') \ {id} :
                 shifts'[j].group_id = shifts'[id].group_id
                   /\ shifts'[j].date = shifts'[id].date
                   /\ shifts'[j].user_id = shifts'[id].user_id]_vars

\* a group in which a worker holds two shifts on one date is published
C28_Witness ==
    /\ result.op = "publish_shifts" /\ result.ok
    /\ \E i, j \in Ids(shifts) :
         /\ C28_DoubleBooked(i, j)
         /\ shifts[i].status = "published"
         /\ shifts[j].status = "published"
         /\ \E k \in DOMAIN revisions :
              /\ revisions[k].shift_id = i
              /\ revisions[k].field_name = "user_id"

---------------------------------------------------------------------------
(* Properties of create_shifts *)

CreateShiftsReturned == call.fn = "create_shifts" /\ call.returned

\* the requests of the arguments that can become a shift: the worker is in
\* the list and active, the date is in the range
Candidates(args) ==
    {k \in DOMAIN args.requests :
       /\ args.requests[k].date \in args.start_date..args.end_date
       /\ \E u \in Range(args.users) :
            u.id = args.requests[k].user_id /\ u.is_active}

\* the workers assigned on date by the list ret
AssignedOn(ret, date) == {ret[i].user_id : i \in {j \in DOMAIN ret : ret[j].date = date}}

\* request k of args agrees with shift s
StemsFrom(s, args, k) ==
    /\ args.requests[k].user_id = s.user_id
    /\ args.requests[k].date = s.date
    /\ args.requests[k].start_time = s.start_time
    /\ args.requests[k].end_time = s.end_time

\* C13: create_shifts returns at most one shift for each worker and date.
C13_OneShiftPerWorkerAndDate ==
    CreateShiftsReturned =>
      \A i, j \in DOMAIN call.ret :
         (call.ret[i].user_id = call.ret[j].user_id
            /\ call.ret[i].date = call.ret[j].date) => i = j

\* a worker with two requests for a date of the range got a shift on it
C13_Witness ==
    /\ CreateShiftsReturned
    /\ \E k, l \in Candidates(call.args) :
         /\ k # l
         /\ call.args.requests[k].user_id = call.args.requests[l].user_id
         /\ call.args.requests[k].date = call.args.requests[l].date
         /\ call.args.requests[k].user_id
              \in AssignedOn(call.ret, call.args.requests[k].date)

\* the staffing of the dates of the range in the list ret
C14_Staffed(args, ret) ==
    \A date \in args.start_date..args.end_date :
       IF \E k \in Candidates(args) : args.requests[k].date = date
         THEN /\ Cardinality(AssignedOn(ret, date)) >= MIN_STAFF_PER_SHIFT
              /\ Cardinality(AssignedOn(ret, date)) <= MAX_STAFF_PER_SHIFT
         ELSE AssignedOn(ret, date) = {}

\* C14 as stated: in every result of create_shifts, every date of the range
\* with a candidate request has between MIN_STAFF_PER_SHIFT and
\* MAX_STAFF_PER_SHIFT workers, every other date has none.
C14_StaffBoundsInEveryResult ==
    CreateShiftsReturned => C14_Staffed(call.args, call.ret)

\* C14 amended: the same, in every result of create_shifts that is not empty.
C14_StaffBoundsInNonEmptyResult ==
    (CreateShiftsReturned /\ call.ret # <<>>) =>
       C14_Staffed(call.args, call.ret)

\* more workers than MAX_STAFF_PER_SHIFT asked for a date, and exactly
\* MAX_STAFF_PER_SHIFT got it
C14_Witness ==
    /\ CreateShiftsReturned
    /\ \E date \in call.args.start_date..call.args.end_date :
         /\ Cardinality({k \in Candidates(call.args) :
                           call.args.requests[k].date = date})
              > MAX_STAFF_PER_SHIFT
         /\ Cardinality(AssignedOn(call.ret, date)) = MAX_STAFF_PER_SHIFT

\* the shifts of worker u in the week that starts on monday
C15_InWeek(ret, u, monday) ==
    {i \in DOMAIN ret :
       ret[i].user_id = u /\ ret[i].date \in monday..(monday + 6)}

\* C15: no worker has more than floor(MAX_WORK_HOURS_PER_WEEK / 8) shifts in
\* a Monday-to-Sunday week that overlaps the range.
C15_WeeklyDayCap ==
    CreateShiftsReturned =>
      \A u \in {r.user_id : r \in Range(call.args.requests)} :
         \A d \in call.args.start_date..call.args.end_date :
            Cardinality(C15_InWeek(call.ret, u, d - weekday(d)))
               <= MAX_WORK_HOURS_PER_WEEK \div 8

\* a worker asked for six days of one week and got five of them
C15_Witness ==
    /\ CreateShiftsReturned
    /\ \E k \in Candidates(call.args) :
         LET u == call.args.requests[k].user_id
             d == call.args.requests[k].date
             monday == d - weekday(d)
         IN  /\ Cardinality({l \in Candidates(call.args) :
                               /\ call.args.requests[l].user_id = u
                               /\ call.args.requests[l].date
                                    \in monday..(monday + 6)})
                  > MAX_WORK_HOURS_PER_WEEK \div 8
             /\ Cardinality(C15_InWeek(call.ret, u, monday))
                  = MAX_WORK_HOURS_PER_WEEK \div 8

\* the set S of requests is an assignment that satisfies the staff bounds of
\* every date, one shift per worker and day, and the weekly cap on days
C16_Feasible(args, S) ==
    /\ \A date \in args.start_date..args.end_date :
         LET n == Cardinality({k \in S : args.requests[k].date = date})
         IN  IF \E k \in Candidates(args) : args.requests[k].date = date
               THEN n >= MIN_STAFF_PER_SHIFT /\ n <= MAX_STAFF_PER_SHIFT
               ELSE n = 0
    /\ \A k, l \in S :
         (args.requests[k].user_id = args.requests[l].user_id
            /\ args.requests[k].date = args.requests[l].date) => k = l
    /\ \A k \in S :
         LET monday == args.requests[k].date - weekday(args.requests[k].date)
         IN  Cardinality({l \in S :
                            /\ args.requests[l].user_id = args.requests[k].user_id
                            /\ args.requests[l].date \in monday..(monday + 6)})
               <= MAX_WORK_HOURS_PER_WEEK \div 8

RECURSIVE C16_Weight(_, _)
\* the sum of 4 - priority over the requests S
C16_Weight(args, S) ==
    IF S = {}
      THEN 0
      ELSE LET k == CHOOSE x \in S : TRUE
           IN  (4 - args.requests[k].priority) + C16_Weight(args, S \ {k})

\* the total weight of the list ret: each shift counts with the priority of
\* the request it agrees with
C16_WeightOf(args, ret) ==
    C16_Weight(args,
               {CHOOSE k \in DOMAIN args.requests : StemsFrom(ret[i], args, k) :
                  i \in DOMAIN ret})

\* C16: when some assignment is feasible, the weight of the returned list is
\* the maximum over the feasible assignments; when none is, the list is empty.
C16_MaximalWeight ==
    CreateShiftsReturned =>
      LET feasible == {S \in SUBSET Candidates(call.args) :
                         C16_Feasible(call.args, S)}
      IN  IF feasible = {}
            THEN call.ret = <<>>
            ELSE \A S \in feasible :
                    C16_Weight(call.args, S)
                      <= C16_WeightOf(call.args, call.ret)

\* a list was returned although an assignment of smaller weight is feasible
C16_Witness ==
    /\ CreateShiftsReturned
    /\ call.ret # <<>>
    /\ \E S \in SUBSET Candidates(call.args) :
         /\ C16_Feasible(call.args, S)
         /\ C16_Weight(call.args, S) < C16_WeightOf(call.args, call.ret)

\* C17: every returned shift stems from a request of its own: it has the
\* request's worker, date and times, is a draft of the supplied group and
\* creator, its worker is listed and active and its date is in the range.
C17_ShiftsStemFromRequests ==
    CreateShiftsReturned =>
      \A i \in DOMAIN call.ret :
         LET s == call.ret[i]
         IN  /\ s.status = "draft"
             /\ s.group_id = call.args.group_id
             /\ s.created_by = call.args.created_by
             /\ \E k \in Candidates(call.args) : StemsFrom(s, call.args, k)
             /\ Cardinality({j \in DOMAIN call.ret :
                               /\ call.ret[j].user_id = s.user_id
                               /\ call.ret[j].date = s.date
                               /\ call.ret[j].start_time = s.start_time
                               /\ call.ret[j].end_time = s.end_time})
                  <= Cardinality({k \in Candidates(call.args) :
                                    StemsFrom(s, call.args, k)})

\* shifts were returned on arguments with a request that cannot become one
C17_Witness ==
    /\ CreateShiftsReturned
    /\ call.ret # <<>>
    /\ DOMAIN call.args.requests \ Candidates(call.args) # {}

\* the workers who have a candidate request for date
C29_WorkersOn(args, date) ==
    {args.requests[k].user_id :
       k \in {l \in Candidates(args) : args.requests[l].date = date}}

\* some worker, but fewer than MIN_STAFF_PER_SHIFT workers, can work on date
C29_Short(args, date) ==
    /\ C29_WorkersOn(args, date) # {}
    /\ Cardinality(C29_WorkersOn(args, date)) < MIN_STAFF_PER_SHIFT

\* C29: when some date of the range has a candidate request but fewer than
\* MIN_STAFF_PER_SHIFT distinct workers with one, create_shifts returns the
\* empty list.
C29_ShortDateEmptiesRange ==
    CreateShiftsReturned =>
      ((\E date \in call.args.start_date..call.args.end_date :
           C29_Short(call.args, date))
         => call.ret = <<>>)

\* the empty list was returned for a range in which one date is short of
\* workers and another date has enough of them
C29_Witness ==
    /\ CreateShiftsReturned
    /\ call.ret = <<>>
    /\ \E d, e \in call.args.start_date..call.args.end_date :
         /\ C29_Short(call.args, d)
         /\ Cardinality(C29_WorkersOn(call.args, e)) >= MIN_STAFF_PER_SHIFT

---------------------------------------------------------------------------
(* Properties of the generation flow *)

\* run p ends with this step, in which its create_draft_shifts returned ok
Saved(p, ok) ==
    /\ p \in DOMAIN runs
    /\ runs[p].pc = "created"
    /\ runs'[p].pc = "done"
    /\ result'.ok = ok

\* C11: when a run has stored its batch, a request each shift of the batch
\* stems from has status accepted.
C11_ConsumedRequestsAccepted ==
    [][\A p \in 1..MaxRuns :
          Saved(p, TRUE) =>
            \A i \in DOMAIN runs[p].shifts :
               \E k \in DOMAIN runs[p].requests :
                  /\ StemsFrom(runs[p].shifts[i], runs[p], k)
                  /\ shift_requests'[runs[p].requests[k].id].status
                       = "accepted"]_vars

\* C12: when create_draft_shifts returns False in a run, the run sends the
\* manager an error and not the summary of a created draft.
C12_FailedSaveIsReported ==
    [][\A p \in 1..MaxRuns :
          Saved(p, FALSE) =>
            /\ \A n \in DOMAIN sent'[p] : sent'[p][n].kind # "created"
            /\ sent'[p] # <<>>
            /\ Last(sent'[p]).kind = "error"]_vars

\* runs p and q have both turned a request they both loaded into a shift of
\* worker u on date d
C18_BothConsumed(p, q, u, d) ==
    \E k \in DOMAIN runs[p].requests, l \in DOMAIN runs[q].requests :
       /\ runs[p].requests[k].id = runs[q].requests[l].id
       /\ runs[p].requests[k].user_id = u
       /\ runs[p].requests[k].date = d
       /\ \E i \in DOMAIN runs[p].shifts :
            StemsFrom(runs[p].shifts[i], runs[p], k)
       /\ \E j \in DOMAIN runs[q].shifts :
            StemsFrom(runs[q].shifts[j], runs[q], l)

\* worker u is stored twice on date d
C18_DoubleBooked(u, d) ==
    \E i, j \in DOMAIN shifts :
       /\ i # j
       /\ shifts[i].user_id = u /\ shifts[i].date = d
       /\ shifts[j].user_id = u /\ shifts[j].date = d

\* C18: nothing guards two runs against each other: when both have ended
\* without a failure and have turned the same request into a shift, the
\* request's worker is stored twice on the request's date.
C18_RunsAreNotGuarded ==
    faults = <<>> =>
      \A p, q \in DOMAIN runs :
         (p < q /\ runs[p].pc = "done" /\ runs[q].pc = "done") =>
            \A u \in Users, d \in 1..2 :
               C18_BothConsumed(p, q, u, d) => C18_DoubleBooked(u, d)

\* two runs have consumed the same request, which is still pending, and its
\* worker is stored twice on its date
C18_Witness ==
    /\ faults = <<>>
    /\ Len(runs) = 2
    /\ runs[1].pc = "done" /\ runs[2].pc = "done"
    /\ \E u \in Users, d \in 1..2 :
         /\ C18_BothConsumed(1, 2, u, d)
         /\ C18_DoubleBooked(u, d)
         /\ \A k \in DOMAIN shift_requests :
              shift_requests[k].status = "pending"

---------------------------------------------------------------------------
(* Properties of get_duration_hours *)

\* the float x is the whole number hours
C19_Is(x, hours) == x = <<hours * FloatScale, 0, 0>>

\* the minutes from start_time to the next end_time: (end - start) mod 24h
C19_Minutes(start_time, end_time) ==
    ((end_time.hour * 60 + end_time.minute)
       - (start_time.hour * 60 + start_time.minute)) % (24 * 60)

\* C19: get_duration_hours of a Shift and of a ShiftRequest is
\* (end - start) mod 24h in hours: at least 0, below 24, 0 for equal times,
\* end - start when end >= start and end + 24h - start otherwise (4.0 from
\* 22:00 to 02:00).
C19_DurationAcrossMidnight ==
    (call.fn \in {"Shift.get_duration_hours",
                  "ShiftRequest.get_duration_hours"} /\ call.returned) =>
       LET st == call.args.start_time
           en == call.args.end_time
       IN  /\ call.ret = FloatDiv60(C19_Minutes(st, en))
           /\ \A i \in 1..3 : call.ret[i] >= 0
           /\ ~FloatGt(call.ret, 24) /\ ~C19_Is(call.ret, 24)
           /\ st = en => call.ret = FloatZero
           /\ (st = Time(22, 0) /\ en = Time(2, 0)) => C19_Is(call.ret, 4)
           /\ (st = Time(9, 0) /\ en = Time(17, 30)) =>
                call.ret = <<8 * FloatScale + FloatScale \div 2, 0, 0>>

\* the duration of a span that crosses midnight has been computed
C19_Witness ==
    /\ call.fn = "ShiftRequest.get_duration_hours"
    /\ call.returned
    /\ call.args.start_time = Time(22, 0)
    /\ call.args.end_time = Time(2, 0)
    /\ C19_Is(call.ret, 4)

---------------------------------------------------------------------------
(* Properties of LaborLawChecker *)

RECURSIVE C20_MinutesOn(_, _, _, _)
\* the minutes worker u works on date d in the first n shifts of the list
C20_MinutesOn(shift_list, u, d, n) ==
    IF n = 0
      THEN 0
      ELSE C20_MinutesOn(shift_list, u, d, n - 1)
             + (IF shift_list[n].user_id = u /\ shift_list[n].date = d
                  THEN C19_Minutes(shift_list[n].start_time,
                                   shift_list[n].end_time)
                  ELSE 0)

\* C20: check_all_violations holds a critical daily_hours_exceeded violation
\* for a worker exactly when the durations of the worker's shifts on some
\* date sum to more than MAX_WORK_HOURS_PER_DAY hours.
C20_DailyHoursFlaggedIffExceeded ==
    (call.fn = "check_all_violations" /\ call.returned) =>
       \A u \in {call.args[n].user_id : n \in DOMAIN call.args} :
          (\E v \in Range(call.ret) :
              /\ v.user_id = u
              /\ v.violation_type = "daily_hours_exceeded"
              /\ v.severity = "critical")
          <=>
          (\E d \in {call.args[n].date : n \in DOMAIN call.args} :
              C20_MinutesOn(call.args, u, d, Len(call.args))
                > MAX_WORK_HOURS_PER_DAY * 60)

CheckAllReturned == call.fn = "check_all_violations" /\ call.returned

\* the workers of the shift list
C20_Workers(shift_list) == {shift_list[n].user_id : n \in DOMAIN shift_list}

\* the list ret holds a violation of this type and severity for worker u
C20_Flagged(ret, u, violation_type, severity) ==
    \E v \in Range(ret) :
       /\ v.user_id = u
       /\ v.violation_type = violation_type
       /\ v.severity = severity

RECURSIVE C21_MinutesInWeek(_, _, _, _)
\* the minutes worker u works in the week from monday to the Sunday after it
\* in the first n shifts of the list
C21_MinutesInWeek(shift_list, u, monday, n) ==
    IF n = 0
      THEN 0
      ELSE C21_MinutesInWeek(shift_list, u, monday, n - 1)
             + (IF /\ shift_list[n].user_id = u
                   /\ shift_list[n].date \in monday..(monday + 6)
                  THEN C19_Minutes(shift_list[n].start_time,
                                   shift_list[n].end_time)
                  ELSE 0)

\* C21: check_all_violations holds a critical weekly_hours_exceeded
\* violation for a worker exactly when the durations of the worker's shifts
\* in one Monday-to-Sunday week sum to more than MAX_WORK_HOURS_PER_WEEK
\* hours, whether or not the week lies in one year.
C21_WeeklyHoursFlaggedIffExceeded ==
    CheckAllReturned =>
       \A u \in C20_Workers(call.args) :
          C20_Flagged(call.ret, u, "weekly_hours_exceeded", "critical")
          <=>
          (\E n \in DOMAIN call.args :
              C21_MinutesInWeek(call.args, u,
                                call.args[n].date - weekday(call.args[n].date),
                                Len(call.args))
                > MAX_WORK_HOURS_PER_WEEK * 60)

RECURSIVE C22_RunEnding(_, _)
\* the number of consecutive days of the set days that end with day d
C22_RunEnding(days, d) ==
    IF d \in days THEN 1 + C22_RunEnding(days, d - 1) ELSE 0

\* the days on which worker u has a shift
C22_DaysWorked(shift_list, u) ==
    {shift_list[n].date : n \in {m \in DOMAIN shift_list :
                                    shift_list[m].user_id = u}}

\* C22: check_all_violations holds a critical consecutive_days_exceeded
\* violation for a worker exactly when the worker has shifts on more than
\* MAX_CONSECUTIVE_WORK_DAYS consecutive days, however many shifts the worker
\* has on each day.
C22_ConsecutiveDaysFlaggedIffExceeded ==
    CheckAllReturned =>
       \A u \in C20_Workers(call.args) :
          C20_Flagged(call.ret, u, "consecutive_days_exceeded", "critical")
          <=>
          (\E d \in C22_DaysWorked(call.args, u) :
              C22_RunEnding(C22_DaysWorked(call.args, u), d)
                > MAX_CONSECUTIVE_WORK_DAYS)

\* the warning the rest-time rule asks for on a shift, as a list of at most
\* one violation: 45 minutes above 6h and up to 8h, 60 minutes above 8h
C23_Warning(shift) ==
    LET m == C19_Minutes(shift.start_time, shift.end_time)
        rest == IF m > 8 * 60 THEN 60 ELSE 45
    IN  IF m > 6 * 60
          THEN <<[user_id |-> shift.user_id,
                  violation_type |-> "rest_time_required",
                  found_on |-> rest, severity |-> "warning"]>>
          ELSE <<>>

RECURSIVE C23_Warnings(_, _)
\* the warnings of the first n shifts of the list, in the order of the list
C23_Warnings(shift_list, n) ==
    IF n = 0 THEN <<>>
             ELSE C23_Warnings(shift_list, n - 1) \o C23_Warning(shift_list[n])

\* C23: the rest_time_required violations of check_all_violations are one
\* warning for each shift longer than 6h, taken shift by shift: 45 minutes
\* for a shift of up to 8h, 60 minutes for a longer one, none for a shift of
\* 6h or less whatever else the worker works that day.
C23_RestWarningPerShift ==
    CheckAllReturned =>
       SelectSeq(call.ret, LAMBDA v : v.violation_type = "rest_time_required")
         = C23_Warnings(call.args, Len(call.args))

\* shifts of exactly 6h, of 6h01 and of 8h01 of one worker on one day were
\* checked: one warning of 45 and one of 60 minutes
C23_Witness ==
    /\ CheckAllReturned
    /\ Len(call.args) = 3
    /\ call.args[1].end_time = Time(15, 0)
    /\ call.args[2].end_time = Time(15, 1)
    /\ call.args[3].end_time = Time(17, 1)
    /\ \A n \in 1..3 : call.args[n].start_time = Time(9, 0)
    /\ SelectSeq(call.ret, LAMBDA v : v.severity = "warning")
         = <<LaborLawViolation(1, "rest_time_required", 45, "warning"),
             LaborLawViolation(1, "rest_time_required", 60, "warning")>>

---------------------------------------------------------------------------
(* Properties of overlapping calls *)

\* the calls of adjust_shift on shift i that have returned True
C30_Adjusted(i) ==
    {p \in DOMAIN sessions :
       /\ sessions[p].op = "adjust_shift"
       /\ sessions[p].target = ToString(i)
       /\ sessions[p].ok}

\* C30: whatever the overlap of the calls, the stored rows are those of the
\* calls run one after the other: the version of a shift is 1 plus the number
\* of adjust_shift calls on it that returned True, and a shift in status
\* adjusted carries no approver.
C30_OverlapEqualsSerial ==
    \A i \in Ids(shifts) :
       /\ shifts[i].version = 1 + Cardinality(C30_Adjusted(i))
       /\ shifts[i].status = "adjusted" => shifts[i].approved_by = NoneId

=============================================================================
